---- MODULE Spec2Model ----
(***************************************************************************)
(* The Digital Mirror (smile-mirror): the challenge controller, the host   *)
(* timer/frame queues it schedules callbacks on, and the scoring engine.   *)
(*                                                                         *)
(* Three builds of the DigitalMirror class live in the repository:         *)
(*   "gate"    src/script.js        smile gate with the welcome sequence   *)
(*   "gate0"   src/unnamed/part_000 smile gate, claim increments at once   *)
(*   "reverse" src/unnamed/part_001 reverse-CAPTCHA challenge              *)
(* The variable `variant` says which build a behaviour runs.               *)
(*                                                                         *)
(* Numbers: percentages of the scoring engine are kept in hundredths of a  *)
(* percent (61% = 6100) so that the weights 0.3/0.2/0.1 and the noise are  *)
(* exact integers; the score string made by toFixed(1) is kept in tenths.  *)
(***************************************************************************)
EXTENDS Integers, Sequences, FiniteSets, TLC

\* ------------------------------------------------------------------ bounds
\* The host never holds back a callback; what is bounded is the user: a claim (or a
\* captcha submission) is made only while the work already under way is below:
\* most callbacks of one kind that wait in the host's timeout queue
MaxPending == 1
\* most challenges under way at a time: claimed and not yet started, or counting down
MaxIntervals == 2
\* most tracking loops alive at a time, counting the ones still to be started
MaxFrames == 2
\* ticks a leaked captcha interval may push timeRemaining below zero
MaxOverrun == 2

\* ------------------------------------------------------- program constants
maxSmileLevel == 3
maxCaptchaLevel == 5
\* 14.3 per tick in script.js, 25 per tick in part_000 (tenths of a percent)
ProgressStepGate == 143
ProgressStepGate0 == 250
ProgressDone == 1000
\* baseCaptchaTime 5.0 s and timeIncrement 2.0 s, in ticks of 0.1 s
baseCaptchaTime == 50
timeIncrement == 20

Min(a, b) == IF a <= b THEN a ELSE b
Max(a, b) == IF a >= b THEN a ELSE b

\* ---------------------------------------------------------- scoring engine
\* SubMetrics: each field a whole percentage
MetricNames == {"mouthCurvature", "eyeSymmetry", "smileIntensity", "mouthWidth", "facialTension"}

\* weighted base score, in hundredths of a percent
WeightedBaseTensionNotInverted(metrics) ==
    30 * metrics.mouthCurvature + 20 * metrics.eyeSymmetry
  + 30 * metrics.smileIntensity + 10 * metrics.mouthWidth
  + 10 * metrics.facialTension

WeightedBase(metrics) ==
    30 * metrics.mouthCurvature + 20 * metrics.eyeSymmetry
  + 30 * metrics.smileIntensity + 10 * metrics.mouthWidth
  + 10 * (100 - metrics.facialTension)

\* the switch(level) of calculateRealisticScore, min first and max second
LevelCapMissingCeiling(baseScore, level) ==
    CASE level = 1 -> Max(Min(baseScore, 7500), 5500)
      [] level = 2 -> Max(baseScore, 4000)
      [] level = 3 -> Max(Min(baseScore, 4500), 2500)
      [] OTHER -> baseScore

LevelCap(baseScore, level) ==
    CASE level = 1 -> Max(Min(baseScore, 7500), 5500)
      [] level = 2 -> Max(Min(baseScore, 6500), 4000)
      [] level = 3 -> Max(Min(baseScore, 4500), 2500)
      [] OTHER -> baseScore

calculateRealisticScore(metrics, level) == LevelCap(WeightedBase(metrics), level)

\* the textual copy used on the simulated branch
calculateSimulatedScore(metrics, level) ==
    LET baseScore == 30 * metrics.mouthCurvature + 20 * metrics.eyeSymmetry
                   + 30 * metrics.smileIntensity + 10 * metrics.mouthWidth
                   + 10 * (100 - metrics.facialTension)
    IN  CASE level = 1 -> Max(Min(baseScore, 7500), 5500)
          [] level = 2 -> Max(Min(baseScore, 6500), 4000)
          [] level = 3 -> Max(Min(baseScore, 4500), 2500)
          [] OTHER -> baseScore

\* Math.max(5, Math.min(79, baseScore + variance))
FinalClampUncapped(v) == Max(500, v)

FinalClamp(v) == Max(500, Min(7900, v))

\* Number.prototype.toFixed(1) of a non-negative value: nearest tenth, ties up
ToFixed1(v) == (v + 5) \div 10

\* generateSmileScore(level): useReal is the test isModelLoaded && realLandmarks.length > 0,
\* metrics what calculateRealFacialMetrics / generateSimulatedMetrics returned,
\* variance the value (Math.random() - 0.5) * 6 in hundredths
generateSmileScore(level, useReal, metrics, variance) ==
    LET baseScore == IF useReal THEN calculateRealisticScore(metrics, level)
                               ELSE calculateSimulatedScore(metrics, level)
        finalScore == FinalClamp(baseScore + variance)
    IN  [score |-> ToFixed1(finalScore), subMetrics |-> metrics]

\* ------------------------------------------------------------------- state
VARIABLES
    variant,                \* which build runs: "gate", "gate0", "reverse" ("score": engine alone)
    smileLevel,             \* this.smileLevel
    captchaLevel,           \* this.captchaLevel (reverse build)
    humanityPercentage,     \* this.humanityPercentage
    currentSmileScoreData,  \* <<>> while undefined, else <<[score, subMetrics]>>
    isAnalyzing,            \* this.isAnalyzing
    analysisTimer,          \* this.analysisTimer: interval handle, 0 = null
    isTracking,             \* this.isTracking
    animationFrameId,       \* this.animationFrameId: frame handle, 0 = null
    facialOverlay,          \* this.facialOverlay is a canvas (TRUE) or null (FALSE)
    isModelLoaded,          \* this.isModelLoaded
    realLandmarks,          \* this.realLandmarks, abstracted to its length: 0, 6 or 468
    faceBoundingBox,        \* this.faceBoundingBox is an object (TRUE) or null (FALSE)
    captchaTimerInterval,   \* this.captchaTimerInterval: interval handle, 0 = null
    timeRemaining,          \* this.timeRemaining, in tenths of a second
    captchaOverlay,         \* captchaOverlay is displayed
    failureOverlay,         \* failureOverlay is displayed
    verdictOverlay,         \* verdictOverlay is displayed
    timeouts,               \* host: pending setTimeout callbacks, by kind
    intervals,              \* host: live setInterval timers, handle -> closure `progress`
    rafQueue,               \* host: requested animation frames not yet run
    inflight,               \* host: updateFacialAnalysisOverlay calls awaiting estimateFaces
    args,                   \* inputs of the scoring engine run on its own
    out,                    \* results of the scoring engine run on its own
    buttons,                \* the buttons the result panel holds: "none", "tryAgain", "offer", "startOver"
    rejected,               \* history: final rejection was chosen and no reset came since
    unloaded,               \* the page was unloaded: the host runs nothing any more
    lastOp,                 \* history: the entry point that ran last ("callback": a host callback;
                            \* for a per-frame update that ended, how it ended)
    teardown                \* history: a teardown ran and no claim came since

vars == <<variant, smileLevel, captchaLevel, humanityPercentage, currentSmileScoreData,
          isAnalyzing, analysisTimer, isTracking, animationFrameId, facialOverlay,
          isModelLoaded, realLandmarks, faceBoundingBox, captchaTimerInterval,
          timeRemaining, captchaOverlay, failureOverlay, verdictOverlay,
          timeouts, intervals, rafQueue, inflight, args, out, buttons, rejected,
          unloaded, lastOp, teardown>>

trackerVars == <<isTracking, animationFrameId, facialOverlay, realLandmarks,
                 faceBoundingBox, rafQueue, inflight>>
reverseVars == <<captchaLevel, captchaTimerInterval, timeRemaining, captchaOverlay, verdictOverlay>>
engineVars == <<args, out>>
offerVars == <<buttons, rejected>>
gateVars == <<smileLevel, currentSmileScoreData, isAnalyzing, analysisTimer>>

\* ------------------------------------------------------- inputs of a run
\* sub-metric records the scoring engine is given
MetricInputs ==
    [mouthCurvature : {0, 60, 100}, eyeSymmetry : {0, 70, 100}, smileIntensity : {0, 50, 100},
     mouthWidth : {0, 80, 100}, facialTension : {0, 40, 100}]
ScenarioMetrics ==
    [mouthCurvature |-> 60, eyeSymmetry |-> 70, smileIntensity |-> 50,
     mouthWidth |-> 80, facialTension |-> 40]
\* sub-metric records a controller run draws from
SessionMetrics == {ScenarioMetrics}
\* what calculateRealFacialMetrics() measures on a 468-point mesh of a session: a mouth
\* 20 px wide and 10 px open, equal eye widths, the mouth corners below the nose tip
GeometricMetrics ==
    {[mouthCurvature |-> 25, eyeSymmetry |-> 100, smileIntensity |-> 0,
      mouthWidth |-> 100, facialTension |-> 40]}
\* the sub-metrics generateSmileScore() works on: geometric ones only with the detector
\* loaded and a full mesh held, else generateSimulatedMetrics()
MetricsFromAnyLandmarks(loaded, landmarks) ==
    IF loaded /\ landmarks > 0 THEN GeometricMetrics ELSE SessionMetrics

MetricsFrom(loaded, landmarks) ==
    IF loaded /\ landmarks >= 468 THEN GeometricMetrics ELSE SessionMetrics
\* (Math.random() - 0.5) * 6 lies in [-3, 3): hundredths -300 .. 299
VarianceInputs == {-300, -7, 0, 153, 299}
SessionVariance == {299}
LevelInputs == 0 .. 4

NoArgs == [level |-> 0, useReal |-> FALSE, metrics |-> ScenarioMetrics,
           variance |-> 0, other |-> ScenarioMetrics]
NoOut == [pc |-> "idle", base |-> 0, otherBase |-> 0, again |-> 0]

\* ------------------------------------------------------------ host queues
TimeoutKinds == {"phase2", "phase3", "trigger", "failure", "captcha", "success", "hide",
                 "offer", "startOver"}
NoTimeouts == [k \in TimeoutKinds |-> 0]
Schedule(t, k) == [t EXCEPT ![k] = @ + 1]
Unschedule(t, k) == [t EXCEPT ![k] = @ - 1]
CanSchedule(t, k) == t[k] < MaxPending

\* a handle no live timer and no field holds; handles are only compared for equality
FreshHandle(used) == CHOOSE i \in 1 .. (Cardinality(used) + 1) :
                        i \notin used /\ \A j \in 1 .. (i - 1) : j \in used
NoIntervals == [i \in {} |-> 0]
SetInterval(iv, h) == [i \in DOMAIN iv \cup {h} |-> IF i = h THEN 0 ELSE iv[i]]
\* clearInterval(h): a no-op for null and for handles already cleared
ClearInterval(iv, h) == [i \in DOMAIN iv \ {h} |-> iv[i]]

\* ------------------------------------------------------------ initial state
\* the state the constructor leaves (script.js 29-84, part_001 25-53), the detector
\* loaded or not (setupFacialDetection) and the overlay canvas made on loadedmetadata
Init ==
    /\ variant \in {"gate", "gate0", "reverse"}
    /\ smileLevel = 0
    /\ captchaLevel = 0
    /\ humanityPercentage = 100
    /\ currentSmileScoreData = <<>>
    /\ isAnalyzing = FALSE
    /\ analysisTimer = 0
    /\ isTracking = FALSE
    /\ animationFrameId = 0
    /\ facialOverlay = (variant # "reverse")
    /\ isModelLoaded \in (IF variant = "reverse" THEN {FALSE} ELSE BOOLEAN)
    /\ realLandmarks = 0
    /\ faceBoundingBox = FALSE
    /\ captchaTimerInterval = 0
    /\ timeRemaining = baseCaptchaTime
    /\ captchaOverlay = FALSE
    /\ failureOverlay = FALSE
    /\ verdictOverlay = FALSE
    /\ timeouts = NoTimeouts
    /\ intervals = NoIntervals
    /\ rafQueue = {}
    /\ inflight = 0
    /\ args = NoArgs
    /\ out = NoOut
    /\ buttons = "none"
    /\ rejected = FALSE
    /\ unloaded = FALSE
    /\ lastOp = "constructor"
    /\ teardown = FALSE

IsGate == variant \in {"gate", "gate0"} /\ ~unloaded
IsReverse == variant = "reverse" /\ ~unloaded

\* ------------------------------------------------- smile gate: controller
\* updateHumanityLevel(): at 0% the failure page is scheduled 1000 ms ahead
updateHumanityLevel(t, humanity) == IF humanity <= 0 THEN Schedule(t, "failure") ELSE t

\* Math.max(0, 100 - level * 25)
HumanityOfWrongRate(level) == Max(0, 100 - level * 20)

HumanityOf(level) == Max(0, 100 - level * 25)

\* animate(): while tracking, request the next frame and remember its handle
Animate(tracking, frameId, queue) ==
    IF tracking
    THEN LET h == FreshHandle(queue \cup {frameId}) IN <<h, queue \cup {h}>>
    ELSE <<frameId, queue>>

\* stopOverlayUpdates(): cancels the one frame animationFrameId names
StopOverlayUpdates ==
    /\ isTracking' = FALSE
    /\ rafQueue' = rafQueue \ {animationFrameId}
    /\ animationFrameId' = 0
    /\ facialOverlay' = FALSE

\* updateSmileInstruction(): part_000 writes the instruction as text into the panel
\* its result buttons live in; script.js writes it into the assistant's message
InstructionShown(v, level, b) ==
    IF v = "gate0" /\ level \in 1 .. maxSmileLevel THEN "none" ELSE b

\* showSmileResults(), the buttons it writes at once: part_000 puts "TRY AGAIN" under
\* the results of levels 1 and 2 and the two options under those of level 3
ResultButtons(v, level, b) ==
    IF v = "gate0" /\ level \in {1, 2} THEN "tryAgain"
    ELSE IF v = "gate0" /\ level = 3 THEN "offer"
    ELSE b

\* showSmileResults() of script.js adds the two options 500 ms after a level 3 result
OffersLater(v, level) == v = "gate" /\ level = 3

\* the buttons can be pressed: part_000 keeps them in #clean-instruction, which its
\* updateHumanityLevel() hides from the maximum level on and only resetMirror() shows again
OptionsVisible == variant = "gate" \/ smileLevel < maxSmileLevel

\* triggerSmileVerification() and the startFakeAnalysis() it ends with; the await of
\* generateSmileScore only yields to microtasks, so the handler runs as one step
TriggerSmileVerification(level, metrics, variance) ==
    /\ currentSmileScoreData' =
          <<generateSmileScore(level, isModelLoaded /\ realLandmarks > 0, metrics, variance)>>
    /\ isAnalyzing' = TRUE
    /\ facialOverlay' = TRUE
    /\ isTracking' = TRUE
    /\ LET a == Animate(TRUE, animationFrameId, rafQueue)
       IN  animationFrameId' = a[1] /\ rafQueue' = a[2]
    /\ LET h == FreshHandle(DOMAIN intervals \cup {analysisTimer, captchaTimerInterval})
       IN  analysisTimer' = h /\ intervals' = SetInterval(intervals, h)

\* the guard both builds open processHumanClaim() with
AtMaximumOffByOne(level, maxLevel) == level > maxLevel

AtMaximum(level, maxLevel) == level >= maxLevel

\* analyses claimed and still to be started by a timeout
Starts == timeouts["phase2"] + timeouts["phase3"] + timeouts["trigger"] + timeouts["captcha"]
\* the user makes a further claim only below the bounds
RoomForClaim ==
    /\ Starts + Cardinality(DOMAIN intervals) < MaxIntervals
    /\ Starts + Cardinality(rafQueue) + inflight < MaxFrames
    /\ timeouts["failure"] < MaxPending
    /\ timeouts["offer"] = 0 /\ timeouts["startOver"] = 0

\* processHumanClaim() of script.js (welcome sequence at level 0) and of part_000
Claimed ==
    /\ IsGate
    /\ lastOp' = "processHumanClaim"
    /\ teardown' = FALSE
    /\ IF AtMaximum(smileLevel, maxSmileLevel)
       THEN UNCHANGED <<smileLevel, humanityPercentage, timeouts>>
       ELSE IF variant = "gate" /\ smileLevel = 0
       THEN /\ RoomForClaim
            /\ timeouts' = Schedule(timeouts, "phase2")
            /\ UNCHANGED <<smileLevel, humanityPercentage>>
       ELSE /\ RoomForClaim
            /\ smileLevel' = smileLevel + 1
            /\ humanityPercentage' = HumanityOf(smileLevel')
            /\ timeouts' = Schedule(updateHumanityLevel(timeouts, humanityPercentage'), "trigger")
    /\ UNCHANGED <<variant, currentSmileScoreData, isAnalyzing, analysisTimer, intervals,
                   isModelLoaded, failureOverlay, unloaded>>
    /\ UNCHANGED <<trackerVars, reverseVars, offerVars>>

\* a claim that reaches processHumanClaim from outside the input layer's model
ProcessHumanClaim == Claimed /\ UNCHANGED engineVars

\* the 2500 ms callback of the welcome sequence: schedules the 1500 ms one
WelcomePhase2 ==
    /\ IsGate /\ timeouts["phase2"] > 0
    /\ timeouts' = Schedule(Unschedule(timeouts, "phase2"), "phase3")
    /\ lastOp' = "callback"
    /\ UNCHANGED <<variant, humanityPercentage, isModelLoaded, failureOverlay, unloaded, teardown>>
    /\ UNCHANGED <<gateVars, intervals, trackerVars, reverseVars, engineVars, offerVars>>

\* the 1500 ms callback: raises the level and starts the first analysis
WelcomePhase3 ==
    /\ IsGate /\ timeouts["phase3"] > 0
    /\ smileLevel' = smileLevel + 1
    /\ humanityPercentage' = HumanityOf(smileLevel')
    /\ timeouts' = updateHumanityLevel(Unschedule(timeouts, "phase3"), humanityPercentage')
    /\ \E m \in MetricsFrom(isModelLoaded, realLandmarks), v \in SessionVariance :
           TriggerSmileVerification(smileLevel', m, v)
    /\ buttons' = InstructionShown(variant, smileLevel', buttons)
    /\ lastOp' = "callback"
    /\ UNCHANGED <<variant, isModelLoaded, realLandmarks, faceBoundingBox, inflight,
                   failureOverlay, rejected, unloaded, teardown>>
    /\ UNCHANGED <<reverseVars, engineVars>>

\* the 1000 ms callback of a later claim
SmileTrigger ==
    /\ IsGate /\ timeouts["trigger"] > 0
    /\ timeouts' = Unschedule(timeouts, "trigger")
    /\ \E m \in MetricsFrom(isModelLoaded, realLandmarks), v \in SessionVariance :
           TriggerSmileVerification(smileLevel, m, v)
    /\ buttons' = InstructionShown(variant, smileLevel, buttons)
    /\ lastOp' = "callback"
    /\ UNCHANGED <<variant, smileLevel, humanityPercentage, isModelLoaded, realLandmarks,
                   faceBoundingBox, inflight, failureOverlay, rejected, unloaded, teardown>>
    /\ UNCHANGED <<reverseVars, engineVars>>

\* one firing of an analysis setInterval callback (startFakeAnalysis). `progress` is
\* the closure's own counter; once it has passed 100 every later firing takes the
\* same branch, so it is kept at the first value past 100
AnalysisStep == IF variant = "gate" THEN ProgressStepGate ELSE ProgressStepGate0

AnalysisTick(h) ==
    /\ IsGate /\ h \in DOMAIN intervals
    /\ lastOp' = "callback"
    /\ LET progress == IF intervals[h] >= ProgressDone THEN intervals[h]
                                                      ELSE intervals[h] + AnalysisStep
           ticked == [intervals EXCEPT ![h] = progress]
       IN  IF progress >= ProgressDone
           THEN \* clearInterval(this.analysisTimer); stopOverlayUpdates(); showSmileResults()
                /\ intervals' = ClearInterval(ticked, analysisTimer)
                /\ StopOverlayUpdates
                /\ teardown' = TRUE
                /\ buttons' = ResultButtons(variant, smileLevel, buttons)
                /\ IF OffersLater(variant, smileLevel)
                   THEN CanSchedule(timeouts, "offer") /\ timeouts' = Schedule(timeouts, "offer")
                   ELSE UNCHANGED timeouts
           ELSE /\ intervals' = ticked
                /\ UNCHANGED <<isTracking, rafQueue, animationFrameId, facialOverlay, teardown,
                               buttons, timeouts>>
    /\ UNCHANGED <<variant, humanityPercentage, isModelLoaded, realLandmarks,
                   faceBoundingBox, inflight, failureOverlay, rejected, unloaded>>
    /\ UNCHANGED <<gateVars, reverseVars, engineVars>>

\* what one detection attempt leaves in the tracker (performContinuousFacialDetection
\* followed by the branch of updateFacialAnalysisOverlay): outcome "mesh" is a face
\* with 468 keypoints, "none" an empty result, "throw" a rejected estimateFaces
DetectionOutcomes == {"mesh", "none", "throw"}
\* updateFaceBoundingBox(): a box is made only from landmarks already held
BoxAfterFace(landmarks, box) == box \/ landmarks > 0
\* the frame is drawn as detected only if a face came back and a box exists
DetectedFrameOnEmptyResult(outcome, landmarks, box) == BoxAfterFace(landmarks, box)

DetectedFrame(outcome, landmarks, box) == outcome = "mesh" /\ BoxAfterFace(landmarks, box)
LandmarksAfter(outcome, landmarks, box) ==
    IF DetectedFrame(outcome, landmarks, box) THEN 468 ELSE 6
\* drawFaceBoundingBox() reads this.facialOverlay.width once 468 landmarks are held
DrawThrowsOnAnyFrame(outcome, landmarks, box, overlay) == ~overlay

DrawThrows(outcome, landmarks, box, overlay) ==
    DetectedFrame(outcome, landmarks, box) /\ ~overlay

\* how a per-frame update ends: skipped while no analysis runs, rejected by a throwing
\* draw, on the detected branch, or on the fallback one; a frame that is only suspended
\* in estimateFaces has not ended
FrameEnds(skipped, ended, detected, threw) ==
    IF skipped THEN "frameSkipped"
    ELSE IF ~ended THEN "callback"
    ELSE IF threw THEN "frameThrew"
    ELSE IF detected THEN "detectedFrame"
    ELSE "fallbackFrame"
\* the values of lastOp that stand for steps of the host
HostCallbacks == {"callback", "frameSkipped", "frameThrew", "detectedFrame", "fallbackFrame"}

\* a requested animation frame runs: updateFacialAnalysisOverlay() up to its first
\* real suspension (the estimateFaces call), or to its end when there is none
AnimationFrame(h) ==
    /\ IsGate /\ h \in rafQueue
    /\ facialOverlay' = TRUE
    /\ lastOp' = FrameEnds(~isAnalyzing, ~isModelLoaded, FALSE, FALSE)
    /\ IF ~isAnalyzing
       THEN \* 'Not analyzing - skipping overlay update', then animate()
            /\ LET a == Animate(isTracking, animationFrameId, rafQueue \ {h})
               IN  animationFrameId' = a[1] /\ rafQueue' = a[2]
            /\ UNCHANGED <<inflight, realLandmarks, faceBoundingBox>>
       ELSE IF isModelLoaded
       THEN \* suspended in estimateFaces
            /\ rafQueue' = rafQueue \ {h}
            /\ inflight' = inflight + 1
            /\ UNCHANGED <<animationFrameId, realLandmarks, faceBoundingBox>>
       ELSE \* no detector: the fallback box and its 6 landmarks, then animate()
            /\ realLandmarks' = 6
            /\ faceBoundingBox' = TRUE
            /\ LET a == Animate(isTracking, animationFrameId, rafQueue \ {h})
               IN  animationFrameId' = a[1] /\ rafQueue' = a[2]
            /\ UNCHANGED inflight
    /\ UNCHANGED <<variant, humanityPercentage, timeouts, intervals, isModelLoaded, isTracking,
                   failureOverlay, unloaded, teardown>>
    /\ UNCHANGED <<gateVars, reverseVars, engineVars, offerVars>>

\* estimateFaces settles and the suspended update runs to its end
DetectionSettles(outcome) ==
    /\ IsGate /\ inflight > 0
    /\ lastOp' = FrameEnds(FALSE, TRUE, DetectedFrame(outcome, realLandmarks, faceBoundingBox),
                           DrawThrows(outcome, realLandmarks, faceBoundingBox, facialOverlay))
    /\ inflight' = inflight - 1
    /\ realLandmarks' = LandmarksAfter(outcome, realLandmarks, faceBoundingBox)
    /\ faceBoundingBox' = TRUE
    /\ IF DrawThrows(outcome, realLandmarks, faceBoundingBox, facialOverlay)
       THEN \* the update's promise rejects: .then(() => this.animate()) never runs
            UNCHANGED <<animationFrameId, rafQueue>>
       ELSE LET a == Animate(isTracking, animationFrameId, rafQueue)
            IN  animationFrameId' = a[1] /\ rafQueue' = a[2]
    /\ UNCHANGED <<variant, humanityPercentage, timeouts, intervals, isModelLoaded, isTracking,
                   facialOverlay, failureOverlay, unloaded, teardown>>
    /\ UNCHANGED <<gateVars, reverseVars, engineVars, offerVars>>

\* the 500 ms callback of a level 3 result in script.js: the two options replace
\* whatever buttons the assistant holds
OfferButtons ==
    /\ IsGate /\ timeouts["offer"] > 0
    /\ timeouts' = Unschedule(timeouts, "offer")
    /\ buttons' = "offer"
    /\ lastOp' = "callback"
    /\ UNCHANGED <<variant, humanityPercentage, intervals, isModelLoaded, failureOverlay,
                   rejected, unloaded, teardown>>
    /\ UNCHANGED <<gateVars, trackerVars, reverseVars, engineVars>>

\* what both choices do to the buttons: part_000 writes "START OVER" at once,
\* script.js 500 ms later
Chosen ==
    /\ IsGate /\ buttons = "offer" /\ OptionsVisible
    /\ IF variant = "gate"
       THEN /\ CanSchedule(timeouts, "startOver")
            /\ timeouts' = Schedule(timeouts, "startOver")
            /\ UNCHANGED buttons
       ELSE /\ buttons' = "startOver"
            /\ UNCHANGED timeouts
    /\ UNCHANGED <<variant, humanityPercentage, intervals, isModelLoaded, failureOverlay,
                   unloaded, teardown>>
    /\ UNCHANGED <<gateVars, trackerVars, reverseVars, engineVars>>

\* showSmileTutorial(), the "Learn to Smile" button
ShowSmileTutorial ==
    /\ Chosen
    /\ lastOp' = "showSmileTutorial"
    /\ UNCHANGED rejected

\* showFinalRejection(), the "Give Up" button
ShowFinalRejection ==
    /\ Chosen
    /\ lastOp' = "showFinalRejection"
    /\ rejected' = TRUE

\* the 500 ms callback of a choice in script.js: the button container, if there is
\* one, now holds the single reset button
StartOverButtons ==
    /\ IsGate /\ timeouts["startOver"] > 0
    /\ timeouts' = Unschedule(timeouts, "startOver")
    /\ buttons' = (IF buttons = "none" THEN "none" ELSE "startOver")
    /\ lastOp' = "callback"
    /\ UNCHANGED <<variant, humanityPercentage, intervals, isModelLoaded, failureOverlay,
                   rejected, unloaded, teardown>>
    /\ UNCHANGED <<gateVars, trackerVars, reverseVars, engineVars>>

\* the 1000 ms callback of updateHumanityLevel(): showFailurePage()
ShowFailurePage ==
    /\ ~unloaded /\ timeouts["failure"] > 0
    /\ timeouts' = Unschedule(timeouts, "failure")
    /\ failureOverlay' = TRUE
    /\ captchaOverlay' = FALSE
    /\ lastOp' = "callback"
    /\ UNCHANGED <<variant, humanityPercentage, intervals, isModelLoaded, unloaded, teardown,
                   captchaLevel, captchaTimerInterval, timeRemaining, verdictOverlay>>
    /\ UNCHANGED <<gateVars, trackerVars, engineVars, offerVars>>

\* resetMirror() of script.js / part_000
ResetMirror ==
    /\ IsGate
    /\ lastOp' = "resetMirror"
    /\ teardown' = TRUE
    /\ smileLevel' = 0
    /\ humanityPercentage' = 100
    /\ isAnalyzing' = FALSE
    /\ intervals' = ClearInterval(intervals, analysisTimer)
    /\ StopOverlayUpdates
    /\ verdictOverlay' = FALSE
    /\ failureOverlay' = FALSE
    /\ captchaOverlay' = FALSE
    /\ buttons' = (IF variant = "gate" THEN "none" ELSE buttons)
    /\ rejected' = FALSE
    /\ UNCHANGED <<variant, currentSmileScoreData, analysisTimer, timeouts, isModelLoaded,
                   realLandmarks, faceBoundingBox, inflight, unloaded,
                   captchaLevel, captchaTimerInterval, timeRemaining>>
    /\ UNCHANGED engineVars

\* cleanup(), run by the beforeunload listener; the page then goes away and the host
\* runs none of its callbacks any more
Cleanup ==
    /\ IsGate
    /\ lastOp' = "cleanup"
    /\ teardown' = TRUE
    /\ unloaded' = TRUE
    /\ intervals' = ClearInterval(intervals, analysisTimer)
    /\ StopOverlayUpdates
    /\ UNCHANGED <<variant, humanityPercentage, timeouts, isModelLoaded, realLandmarks,
                   faceBoundingBox, inflight, failureOverlay>>
    /\ UNCHANGED <<gateVars, reverseVars, engineVars, offerVars>>

\* -------------------------------------------- reverse challenge: controller
\* Math.max(0, 100 - level * 20)
HumanityOfReverse(level) == Max(0, 100 - level * 20)

\* processHumanClaim() of part_001
ProcessHumanClaimReverse ==
    /\ IsReverse
    /\ lastOp' = "processHumanClaim"
    /\ teardown' = FALSE
    /\ IF AtMaximum(captchaLevel, maxCaptchaLevel)
       THEN UNCHANGED <<captchaLevel, humanityPercentage, timeouts>>
       ELSE /\ RoomForClaim
            /\ captchaLevel' = captchaLevel + 1
            /\ humanityPercentage' = HumanityOfReverse(captchaLevel')
            /\ timeouts' = Schedule(updateHumanityLevel(timeouts, humanityPercentage'), "captcha")
    /\ UNCHANGED <<variant, intervals, isModelLoaded, failureOverlay, unloaded,
                   captchaTimerInterval, timeRemaining, captchaOverlay, verdictOverlay>>
    /\ UNCHANGED <<gateVars, trackerVars, engineVars, offerVars>>

\* the 1000 ms callback: triggerReverseCAPTCHA() with its startCaptchaTimer()
TriggerReverseCAPTCHA ==
    /\ IsReverse /\ timeouts["captcha"] > 0
    /\ timeouts' = Unschedule(timeouts, "captcha")
    /\ captchaOverlay' = TRUE
    /\ timeRemaining' = baseCaptchaTime + (captchaLevel - 1) * timeIncrement
    /\ LET h == FreshHandle(DOMAIN intervals \cup {analysisTimer, captchaTimerInterval})
       IN  captchaTimerInterval' = h /\ intervals' = SetInterval(intervals, h)
    /\ lastOp' = "callback"
    /\ UNCHANGED <<variant, humanityPercentage, isModelLoaded, failureOverlay, unloaded,
                   teardown, captchaLevel, verdictOverlay>>
    /\ UNCHANGED <<gateVars, trackerVars, engineVars, offerVars>>

\* one firing of a captcha setInterval callback. The float this.timeRemaining, lowered
\* by 0.1 at a time, keeps a positive residue when the tenths reach 0, so the test
\* timeRemaining <= 0 first succeeds one tick later
CaptchaTick(h) ==
    /\ IsReverse /\ h \in DOMAIN intervals
    /\ timeRemaining > 0 - MaxOverrun
    /\ timeRemaining' = timeRemaining - 1
    /\ lastOp' = "callback"
    /\ IF timeRemaining' < 0
       THEN \* handleCaptchaTimeout()
            /\ CanSchedule(timeouts, "hide")
            /\ intervals' = ClearInterval(intervals, captchaTimerInterval)
            /\ timeouts' = Schedule(timeouts, "hide")
       ELSE UNCHANGED <<intervals, timeouts>>
    /\ UNCHANGED <<variant, humanityPercentage, isModelLoaded, failureOverlay, unloaded,
                   teardown, captchaLevel, captchaTimerInterval, captchaOverlay, verdictOverlay>>
    /\ UNCHANGED <<gateVars, trackerVars, engineVars, offerVars>>

\* submitCaptcha(): handleCaptchaSuccess() when the typed code matches, else
\* handleCaptchaFailure()
SubmitCaptcha(matches) ==
    /\ IsReverse /\ captchaOverlay
    /\ LET kind == IF matches THEN "success" ELSE "hide"
       IN  /\ CanSchedule(timeouts, kind)
           /\ timeouts' = Schedule(timeouts, kind)
    /\ intervals' = ClearInterval(intervals, captchaTimerInterval)
    /\ lastOp' = "submitCaptcha"
    /\ UNCHANGED <<variant, humanityPercentage, isModelLoaded, failureOverlay, unloaded,
                   teardown>>
    /\ UNCHANGED <<gateVars, trackerVars, reverseVars, engineVars, offerVars>>

\* the 2000 ms callback of handleCaptchaSuccess()
CaptchaSuccessCloses ==
    /\ IsReverse /\ timeouts["success"] > 0
    /\ timeouts' = Unschedule(timeouts, "success")
    /\ captchaOverlay' = FALSE
    /\ verdictOverlay' = (verdictOverlay \/ AtMaximum(captchaLevel, maxCaptchaLevel))
    /\ lastOp' = "callback"
    /\ UNCHANGED <<variant, humanityPercentage, intervals, isModelLoaded, failureOverlay,
                   unloaded, teardown, captchaLevel, captchaTimerInterval, timeRemaining>>
    /\ UNCHANGED <<gateVars, trackerVars, engineVars, offerVars>>

\* the 2000 ms callback of handleCaptchaFailure() / handleCaptchaTimeout()
CaptchaCloses ==
    /\ IsReverse /\ timeouts["hide"] > 0
    /\ timeouts' = Unschedule(timeouts, "hide")
    /\ captchaOverlay' = FALSE
    /\ lastOp' = "callback"
    /\ UNCHANGED <<variant, humanityPercentage, intervals, isModelLoaded, failureOverlay,
                   unloaded, teardown, captchaLevel, captchaTimerInterval, timeRemaining,
                   verdictOverlay>>
    /\ UNCHANGED <<gateVars, trackerVars, engineVars, offerVars>>

\* resetMirror() of part_001
ResetMirrorReverse ==
    /\ IsReverse
    /\ lastOp' = "resetMirror"
    /\ teardown' = TRUE
    /\ captchaLevel' = 0
    /\ humanityPercentage' = 100
    /\ intervals' = ClearInterval(intervals, captchaTimerInterval)
    /\ verdictOverlay' = FALSE
    /\ failureOverlay' = FALSE
    /\ captchaOverlay' = FALSE
    /\ UNCHANGED <<variant, timeouts, isModelLoaded, unloaded, captchaTimerInterval,
                   timeRemaining>>
    /\ UNCHANGED <<gateVars, trackerVars, engineVars, offerVars>>

\* cleanup() of part_001
CleanupReverse ==
    /\ IsReverse
    /\ lastOp' = "cleanup"
    /\ teardown' = TRUE
    /\ unloaded' = TRUE
    /\ intervals' = ClearInterval(intervals, captchaTimerInterval)
    /\ UNCHANGED <<variant, humanityPercentage, timeouts, isModelLoaded, failureOverlay>>
    /\ UNCHANGED <<gateVars, trackerVars, reverseVars, engineVars, offerVars>>

\* ------------------------------------------------------------ the session
Next ==
    \/ ProcessHumanClaim
    \/ WelcomePhase2
    \/ WelcomePhase3
    \/ SmileTrigger
    \/ \E h \in DOMAIN intervals : AnalysisTick(h)
    \/ \E h \in rafQueue : AnimationFrame(h)
    \/ \E outcome \in DetectionOutcomes : DetectionSettles(outcome)
    \/ OfferButtons
    \/ ShowFailurePage
    \/ ResetMirror
    \/ Cleanup
    \/ ProcessHumanClaimReverse
    \/ TriggerReverseCAPTCHA
    \/ \E h \in DOMAIN intervals : CaptchaTick(h)
    \/ \E matches \in BOOLEAN : SubmitCaptcha(matches)
    \/ CaptchaSuccessCloses
    \/ CaptchaCloses
    \/ ResetMirrorReverse
    \/ CleanupReverse

\* sessions of all three builds in which the user leaves the offered options alone
Spec == Init /\ [][Next]_vars

\* sessions of the smile gate whose detector did not load (setupFacialDetection()
\* caught the failure), in which the user also presses the option buttons
InitOffer == Init /\ variant \in {"gate", "gate0"} /\ ~isModelLoaded

NextOffer ==
    \/ ProcessHumanClaim
    \/ WelcomePhase2
    \/ WelcomePhase3
    \/ SmileTrigger
    \/ \E h \in DOMAIN intervals : AnalysisTick(h)
    \/ \E h \in rafQueue : AnimationFrame(h)
    \/ OfferButtons
    \/ ShowSmileTutorial
    \/ ShowFinalRejection
    \/ StartOverButtons
    \/ ShowFailurePage
    \/ ResetMirror
    \/ Cleanup

SpecOffer == InitOffer /\ [][NextOffer]_vars

\* ------------------------------------------- the scoring engine on its own
OtherInputs ==
    {ScenarioMetrics,
     [mouthCurvature |-> 100, eyeSymmetry |-> 100, smileIntensity |-> 100,
      mouthWidth |-> 100, facialTension |-> 0],
     [mouthCurvature |-> 100, eyeSymmetry |-> 70, smileIntensity |-> 100,
      mouthWidth |-> 80, facialTension |-> 40]}

InitScore ==
    /\ variant = "score"
    /\ smileLevel = 0
    /\ captchaLevel = 0
    /\ humanityPercentage = 100
    /\ currentSmileScoreData = <<>>
    /\ isAnalyzing = FALSE
    /\ analysisTimer = 0
    /\ isTracking = FALSE
    /\ animationFrameId = 0
    /\ facialOverlay = TRUE
    /\ isModelLoaded = FALSE
    /\ realLandmarks = 0
    /\ faceBoundingBox = FALSE
    /\ captchaTimerInterval = 0
    /\ timeRemaining = baseCaptchaTime
    /\ captchaOverlay = FALSE
    /\ failureOverlay = FALSE
    /\ verdictOverlay = FALSE
    /\ timeouts = NoTimeouts
    /\ intervals = NoIntervals
    /\ rafQueue = {}
    /\ inflight = 0
    /\ args \in [level : LevelInputs, useReal : BOOLEAN, metrics : MetricInputs,
                  variance : VarianceInputs, other : OtherInputs]
    /\ out = [NoOut EXCEPT !.pc = "input"]
    /\ buttons = "none"
    /\ rejected = FALSE
    /\ unloaded = FALSE
    /\ lastOp = "constructor"
    /\ teardown = FALSE

controllerVars == <<variant, smileLevel, captchaLevel, humanityPercentage, isAnalyzing,
                    analysisTimer, isModelLoaded, captchaTimerInterval, timeRemaining,
                    captchaOverlay, failureOverlay, verdictOverlay, timeouts, intervals,
                    buttons, rejected, unloaded, teardown>>

\* generateSmileScore(level) on the drawn inputs
ApplyGenerateSmileScore ==
    /\ variant = "score" /\ out.pc = "input"
    /\ currentSmileScoreData' =
          <<generateSmileScore(args.level, args.useReal, args.metrics, args.variance)>>
    /\ out' = [out EXCEPT !.pc = "scored"]
    /\ lastOp' = "generateSmileScore"
    /\ UNCHANGED <<controllerVars, trackerVars, args>>

\* the two band-capped bases: one per branch, on the two drawn sub-metric records
ApplyLevelCap ==
    /\ variant = "score" /\ out.pc = "scored"
    /\ out' = [out EXCEPT !.pc = "capped",
                           !.base = calculateRealisticScore(args.metrics, args.level),
                           !.otherBase = calculateSimulatedScore(args.other, args.level)]
    /\ lastOp' = "calculateRealisticScore"
    /\ UNCHANGED <<controllerVars, trackerVars, args, currentSmileScoreData>>

\* the band cap once more on the base it produced
ReapplyLevelCap ==
    /\ variant = "score" /\ out.pc = "capped"
    /\ out' = [out EXCEPT !.pc = "recapped", !.again = LevelCap(out.base, args.level)]
    /\ lastOp' = "levelCap"
    /\ UNCHANGED <<controllerVars, trackerVars, args, currentSmileScoreData>>

\* generateSimulatedMetrics(): five independent draws, Math.random() * width + low each,
\* at whole percentages of the half-open ranges (their ends and a middle value)
generateSimulatedMetricsFromZero ==
    [mouthCurvature : {0, 55, 69}, eyeSymmetry : {60, 70, 84}, smileIntensity : {45, 60, 79},
     mouthWidth : {70, 89}, facialTension : {30, 69}]

generateSimulatedMetrics ==
    [mouthCurvature : {40, 55, 69}, eyeSymmetry : {60, 70, 84}, smileIntensity : {45, 60, 79},
     mouthWidth : {70, 89}, facialTension : {30, 69}]

\* generateSmileScore() on its simulated branch, with the sub-metrics it draws itself
ApplySimulatedBranch ==
    /\ variant = "score" /\ out.pc = "input"
    /\ ~args.useReal /\ args.metrics = ScenarioMetrics /\ args.other = ScenarioMetrics
    /\ \E subMetrics \in generateSimulatedMetrics :
          out' = [pc |-> "synthesized", base |-> calculateSimulatedScore(subMetrics, args.level),
                  otherBase |-> 0, again |-> 0,
                  result |-> generateSmileScore(args.level, FALSE, subMetrics, args.variance)]
    /\ lastOp' = "generateSmileScore"
    /\ UNCHANGED <<controllerVars, trackerVars, args, currentSmileScoreData>>

NextScore ==
    ApplyGenerateSmileScore \/ ApplyLevelCap \/ ReapplyLevelCap \/ ApplySimulatedBranch

SpecScore == InitScore /\ [][NextScore]_vars

\* ================================================================== claims
\* ------------------------------------------------ the tracker on its own
\* Coordinates are pixels in hundredths. A landmark is <<x, y, z>>, a landmark array a
\* sequence of them; the bounding box is <<>> while null, else <<[x, y, width, height]>>;
\* faceCenter is <<x, y>>.
EmptyTracker == [realLandmarks |-> <<>>, smoothedLandmarks |-> <<>>, faceBoundingBox |-> <<>>,
                 faceCenter |-> <<0, 0>>]
\* setupFacialOverlayCanvas() starts faceCenter at the middle of the video
setupFacialOverlayCanvas(tracker, video) ==
    [tracker EXCEPT !.faceCenter = <<video[1] * 50, video[2] * 50>>]

\* this.landmarkSmoothingFactor = 0.7 and the 0.3 of updateFaceBoundingBox(), in tenths
landmarkSmoothingFactor == 7
boxSmoothingFactor == 3

\* old + (new - old) * factor
Smoothed(old, new, tenths) == old + ((new - old) * tenths) \div 10

MinOf(S) == CHOOSE m \in S : \A n \in S : m <= n
MaxOf(S) == CHOOSE m \in S : \A n \in S : m >= n
Coordinates(landmarks, c) == {landmarks[i][c] : i \in DOMAIN landmarks}

\* the keypoint conversion of extractLandmarks(): x and y both within [0, 1] are taken
\* as normalized and scaled by the video size (given in whole pixels)
ToPixelsEitherInRange(keypoint, video) ==
    IF keypoint[1] \in 0 .. 100 \/ keypoint[2] \in 0 .. 100
    THEN <<keypoint[1] * video[1], keypoint[2] * video[2], keypoint[3]>>
    ELSE keypoint

ToPixels(keypoint, video) ==
    IF keypoint[1] \in 0 .. 100 /\ keypoint[2] \in 0 .. 100
    THEN <<keypoint[1] * video[1], keypoint[2] * video[2], keypoint[3]>>
    ELSE keypoint
Normalized(keypoints, video) == [i \in DOMAIN keypoints |-> ToPixels(keypoints[i], video)]

\* smoothLandmarks()
smoothLandmarks(tracker, newLandmarks) ==
    LET held == tracker.smoothedLandmarks
        next == IF Len(held) = 0 THEN newLandmarks
                ELSE [i \in DOMAIN newLandmarks |->
                        LET newPoint == newLandmarks[i]
                            oldPoint == IF i <= Len(held) THEN held[i] ELSE newPoint
                        IN  [c \in 1 .. 3 |->
                               Smoothed(oldPoint[c], newPoint[c], landmarkSmoothingFactor)]]
    IN  [tracker EXCEPT !.smoothedLandmarks = next, !.realLandmarks = next]

\* extractLandmarks() on a face that carries keypoints
extractLandmarks(tracker, keypoints, video) ==
    LET newLandmarks == Normalized(keypoints, video)
    IN  IF Len(tracker.realLandmarks) = 0
        THEN [tracker EXCEPT !.realLandmarks = newLandmarks, !.smoothedLandmarks = newLandmarks]
        ELSE smoothLandmarks(tracker, newLandmarks)

\* updateFaceBoundingBox(): the extents of the landmarks held before this frame's are
\* extracted, smoothed into the box already held
updateFaceBoundingBox(tracker) ==
    IF Len(tracker.realLandmarks) = 0 THEN tracker
    ELSE LET xs == Coordinates(tracker.realLandmarks, 1)
             ys == Coordinates(tracker.realLandmarks, 2)
             newBox == [x |-> (MinOf(xs) + MaxOf(xs)) \div 2,
                        y |-> (MinOf(ys) + MaxOf(ys)) \div 2,
                        width |-> MaxOf(xs) - MinOf(xs),
                        height |-> MaxOf(ys) - MinOf(ys)]
             box == IF tracker.faceBoundingBox = <<>> THEN newBox
                    ELSE LET b == tracker.faceBoundingBox[1]
                         IN  [x |-> Smoothed(b.x, newBox.x, boxSmoothingFactor),
                              y |-> Smoothed(b.y, newBox.y, boxSmoothingFactor),
                              width |-> Smoothed(b.width, newBox.width, boxSmoothingFactor),
                              height |-> Smoothed(b.height, newBox.height, boxSmoothingFactor)]
         IN  [tracker EXCEPT !.faceBoundingBox = <<box>>, !.faceCenter = <<box.x, box.y>>]

\* createBasicLandmarksFromBoundingBox(), given the box in pixels: eyes, nose, mouth
\* corners, chin
createBasicLandmarksFromBoundingBox(tracker, box) ==
    LET cx == box.x
        cy == box.y
        w == box.width
        h == box.height
        basicLandmarks == <<<<cx - (w * 2) \div 10, cy - (h * 15) \div 100, 0>>,
                            <<cx + (w * 2) \div 10, cy - (h * 15) \div 100, 0>>,
                            <<cx, cy, 0>>,
                            <<cx - (w * 15) \div 100, cy + (h * 2) \div 10, 0>>,
                            <<cx + (w * 15) \div 100, cy + (h * 2) \div 10, 0>>,
                            <<cx, cy + (h * 35) \div 100, 0>>>>
    IN  [tracker EXCEPT !.realLandmarks = basicLandmarks, !.smoothedLandmarks = basicLandmarks]

\* Date.now() at the three frames of a run, in ms, and the four terms of
\* performFallbackFaceDetection() at those times, rounded to hundredths of a pixel:
\* sin(t * 0.5) * 10, cos(t * 0.3) * 5, sin(t * 0.2) * 5 and cos(t * 0.15) * 8, t in s
Times == {0, 1000, 2000}
JitterX(time) == CASE time = 0 -> 0 [] time = 1000 -> 479 [] time = 2000 -> 841
JitterY(time) == CASE time = 0 -> 500 [] time = 1000 -> 478 [] time = 2000 -> 413
JitterWidth(time) == CASE time = 0 -> 0 [] time = 1000 -> 99 [] time = 2000 -> 195
JitterHeight(time) == CASE time = 0 -> 800 [] time = 1000 -> 791 [] time = 2000 -> 764

\* performFallbackFaceDetection(): a box about the middle of the video that moves with
\* the clock, and the basic landmarks made from it
performFallbackFaceDetectionSmoothed(tracker, time, video) ==
    LET faceWidth == Min(video[1], video[2]) * 40
        box == [x |-> video[1] * 50 + JitterX(time),
                y |-> video[2] * 50 + JitterY(time),
                width |-> faceWidth + JitterWidth(time),
                height |-> (faceWidth * 12) \div 10 + JitterHeight(time)]
        held == IF tracker.faceBoundingBox = <<>> THEN box ELSE tracker.faceBoundingBox[1]
        smoothedBox == [x |-> Smoothed(held.x, box.x, boxSmoothingFactor),
                        y |-> Smoothed(held.y, box.y, boxSmoothingFactor),
                        width |-> box.width, height |-> box.height]
    IN  createBasicLandmarksFromBoundingBox(
            [tracker EXCEPT !.faceBoundingBox = <<smoothedBox>>], smoothedBox)

performFallbackFaceDetection(tracker, time, video) ==
    LET faceWidth == Min(video[1], video[2]) * 40
        box == [x |-> video[1] * 50 + JitterX(time),
                y |-> video[2] * 50 + JitterY(time),
                width |-> faceWidth + JitterWidth(time),
                height |-> (faceWidth * 12) \div 10 + JitterHeight(time)]
    IN  createBasicLandmarksFromBoundingBox([tracker EXCEPT !.faceBoundingBox = <<box>>], box)

\* A face record as the detector hands it over: the fields keypoints, landmarks and
\* scaledMesh are sequences of raw keypoints (<<>> when the field is missing), and
\* boundingBox is <<>> or <<[xCenter, yCenter, width, height]>> in hundredths of the frame.
\* A raw keypoint is [style, coords]: style "object" for {x, y, z?} and "positional" for
\* [x, y, z?], coords the values present, <<x, y>> or <<x, y, z>>.
\* the decoding of one keypoint: z || 0 stands in for a missing z
Decoded(keypoints) ==
    LET Coords(keypoint) ==
            IF keypoint.style = "object"
            THEN <<keypoint.coords[1], keypoint.coords[2],
                   IF Len(keypoint.coords) >= 3 THEN keypoint.coords[3] ELSE 0>>
            ELSE <<keypoint.coords[1], keypoint.coords[2],
                   IF Len(keypoint.coords) >= 3 THEN keypoint.coords[3] ELSE 0>>
    IN  [i \in DOMAIN keypoints |-> Coords(keypoints[i])]

\* the field extractLandmarks() reads the keypoints from
KeypointField(face) ==
    IF Len(face.keypoints) > 0 THEN face.keypoints
    ELSE IF Len(face.landmarks) > 0 THEN face.landmarks
    ELSE IF Len(face.scaledMesh) > 0 THEN face.scaledMesh
    ELSE <<>>

\* the local newLandmarks of extractLandmarks(): <<>> when the method computes none
NewLandmarks(face, video) == Normalized(Decoded(KeypointField(face)), video)

\* extractLandmarks() on a face record; PixelBox is the box
\* createBasicLandmarksFromBoundingBox() scales to pixels
extractLandmarksOfRecord(tracker, face, video) ==
    LET PixelBox(boundingBox) ==
            [x |-> boundingBox.xCenter * video[1], y |-> boundingBox.yCenter * video[2],
             width |-> boundingBox.width * video[1], height |-> boundingBox.height * video[2]]
    IN  IF Len(KeypointField(face)) > 0
        THEN extractLandmarks(tracker, Decoded(KeypointField(face)), video)
        ELSE IF face.boundingBox # <<>>
        THEN createBasicLandmarksFromBoundingBox(tracker, PixelBox(face.boundingBox[1]))
        ELSE tracker

\* performContinuousFacialDetection(): with a face, the box from the landmarks held,
\* then the landmarks of the face; false for an empty or a rejected estimateFaces.
\* A frame of detection "face" carries positional keypoints, one of detection "record"
\* a face record.
performContinuousFacialDetection(tracker, frame, video) ==
    IF frame.detection = "face"
    THEN [tracker |-> extractLandmarks(updateFaceBoundingBox(tracker), frame.keypoints, video),
          faceDetected |-> TRUE]
    ELSE IF frame.detection = "record"
    THEN [tracker |-> extractLandmarksOfRecord(updateFaceBoundingBox(tracker), frame.face, video),
          faceDetected |-> TRUE]
    ELSE [tracker |-> tracker, faceDetected |-> FALSE]

\* updateFacialAnalysisOverlay() on one frame: the detected branch needs a face and a
\* box, every other frame is served by the fallback
updateFacialAnalysisOverlay(tracker, frame, video) ==
    LET d == performContinuousFacialDetection(tracker, frame, video)
    IN  IF d.faceDetected /\ d.tracker.faceBoundingBox # <<>>
        THEN [tracker |-> d.tracker, mode |-> "detected"]
        ELSE [tracker |-> performFallbackFaceDetection(d.tracker, frame.time, video),
              mode |-> "fallback"]

\* the length abstraction the controller specifications keep of this.realLandmarks
HeldLength(n) == IF n = 0 THEN 0 ELSE IF n = 6 THEN 6 ELSE 468

\* frames a tracker run is given: detector meshes of MeshPoints points (the detector's
\* 468), two in pixels and one normalized, or a detection that fails
MeshPoints == 7
FramesPerRun == 3
RawMesh(dx, dy) ==
    [i \in 1 .. MeshPoints |-> <<(200 + 20 * i + dx) * 100, (150 + 15 * i + dy) * 100, 100 * i>>]
NormalizedMesh == [i \in 1 .. MeshPoints |-> <<30 + 5 * i, 40 + 5 * i, 0>>]
Meshes == {RawMesh(0, 0), RawMesh(10, -10), NormalizedMesh}
FrameInputs ==
    [detection : {"face"}, keypoints : Meshes, time : Times]
      \cup [detection : {"none", "throw"}, keypoints : {<<>>}, time : Times]
VideoSizes == {<<640, 480>>}

InitTracker ==
    /\ variant = "tracker"
    /\ smileLevel \in {1, maxSmileLevel}
    /\ captchaLevel = 0
    /\ humanityPercentage = HumanityOf(smileLevel)
    /\ currentSmileScoreData = <<>>
    /\ isAnalyzing = TRUE
    /\ analysisTimer = 0
    /\ isTracking = TRUE
    /\ animationFrameId = 0
    /\ facialOverlay = TRUE
    /\ isModelLoaded = TRUE
    /\ realLandmarks = 0
    /\ faceBoundingBox = FALSE
    /\ captchaTimerInterval = 0
    /\ timeRemaining = baseCaptchaTime
    /\ captchaOverlay = FALSE
    /\ failureOverlay = FALSE
    /\ verdictOverlay = FALSE
    /\ timeouts = NoTimeouts
    /\ intervals = NoIntervals
    /\ rafQueue = {}
    /\ inflight = 0
    /\ args \in [video : VideoSizes, frames : [1 .. FramesPerRun -> FrameInputs]]
    /\ out = [n |-> 0, tracker |-> setupFacialOverlayCanvas(EmptyTracker, args.video),
              modes |-> <<>>]
    /\ buttons = "none"
    /\ rejected = FALSE
    /\ unloaded = FALSE
    /\ lastOp = "constructor"
    /\ teardown = FALSE

\* the per-frame update runs on the next frame of the run
TrackFrame ==
    /\ variant = "tracker" /\ out.n < FramesPerRun
    /\ LET u == updateFacialAnalysisOverlay(out.tracker, args.frames[out.n + 1], args.video)
       IN  /\ out' = [n |-> out.n + 1, tracker |-> u.tracker, modes |-> Append(out.modes, u.mode)]
           /\ realLandmarks' = HeldLength(Len(u.tracker.realLandmarks))
           /\ faceBoundingBox' = (u.tracker.faceBoundingBox # <<>>)
           /\ lastOp' = FrameEnds(FALSE, TRUE, u.mode = "detected", FALSE)
    /\ UNCHANGED <<controllerVars, currentSmileScoreData, args, isTracking, animationFrameId,
                   facialOverlay, rafQueue, inflight>>

NextTracker == TrackFrame

SpecTracker == InitTracker /\ [][NextTracker]_vars

\* --------------------------------------------- face records on their own
\* the points a record is made of: inside the unit square, on its border, just outside
\* it on one axis, negative, and far outside (pixels)
SamplePoints == <<<<0, 0>>, <<50, 100>>, <<100, 101>>, <<-1, 50>>, <<20000, 15000>>,
                  <<100, 100>>, <<101, -1>>>>
\* a field of MeshPoints raw keypoints: the sample points from the r-th on
RawKeypoints(style, depth, r) ==
    [i \in 1 .. MeshPoints |->
        LET xy == SamplePoints[((i + r) % Len(SamplePoints)) + 1]
            z == 10 * i - 30
        IN  [style |-> IF style = "mixed" THEN (IF i % 2 = 0 THEN "object" ELSE "positional")
                       ELSE style,
             coords |-> IF depth = "given" \/ (depth = "mixed" /\ i % 2 = 1)
                        THEN <<xy[1], xy[2], z>> ELSE xy]]
NoFace == [keypoints |-> <<>>, landmarks |-> <<>>, scaledMesh |-> <<>>, boundingBox |-> <<>>]
FaceRecords ==
    LET PointStyles == {"object", "positional", "mixed"}
        DepthStyles == {"given", "missing", "mixed"}
        KeypointFields ==
            {RawKeypoints(style, depth, r) : style \in PointStyles, depth \in DepthStyles,
                                             r \in 0 .. (Len(SamplePoints) - 1)}
        SummaryBox == [xCenter |-> 45, yCenter |-> 55, width |-> 30, height |-> 40]
    IN  {[NoFace EXCEPT !.keypoints = k] : k \in KeypointFields}
          \cup {[NoFace EXCEPT !.landmarks = RawKeypoints("object", depth, 1)] :
                   depth \in DepthStyles}
          \cup {[NoFace EXCEPT !.scaledMesh = RawKeypoints("positional", depth, 2)] :
                   depth \in DepthStyles}
          \cup {[NoFace EXCEPT !.keypoints = RawKeypoints("object", "given", 3),
                               !.landmarks = RawKeypoints("positional", "missing", 4)],
                [NoFace EXCEPT !.landmarks = RawKeypoints("mixed", "mixed", 5),
                               !.scaledMesh = RawKeypoints("object", "given", 6),
                               !.boundingBox = <<SummaryBox>>],
                [NoFace EXCEPT !.boundingBox = <<SummaryBox>>],
                NoFace}

\* the trackers a record can meet at the start of a frame: the one of a session's first
\* frame, and those a fallback frame and a detected frame leave
HeldTrackers(video) ==
    LET firstFrame == setupFacialOverlayCanvas(EmptyTracker, video)
        afterFallback ==
            updateFacialAnalysisOverlay(firstFrame,
                [detection |-> "none", keypoints |-> <<>>, time |-> 0], video).tracker
        afterDetection ==
            updateFacialAnalysisOverlay(afterFallback,
                [detection |-> "face", keypoints |-> RawMesh(0, 0), time |-> 1000],
                video).tracker
    IN  {firstFrame, afterFallback, afterDetection}

InitNormalizer ==
    /\ variant = "normalizer"
    /\ smileLevel \in {1, maxSmileLevel}
    /\ captchaLevel = 0
    /\ humanityPercentage = HumanityOf(smileLevel)
    /\ currentSmileScoreData = <<>>
    /\ isAnalyzing = TRUE
    /\ analysisTimer = 0
    /\ isTracking = TRUE
    /\ animationFrameId = 0
    /\ facialOverlay = TRUE
    /\ isModelLoaded = TRUE
    /\ captchaTimerInterval = 0
    /\ timeRemaining = baseCaptchaTime
    /\ captchaOverlay = FALSE
    /\ failureOverlay = FALSE
    /\ verdictOverlay = FALSE
    /\ timeouts = NoTimeouts
    /\ intervals = NoIntervals
    /\ rafQueue = {}
    /\ inflight = 0
    /\ \E video \in VideoSizes, face \in FaceRecords, time \in Times :
       \E held \in HeldTrackers(video) :
          /\ args = [video |-> video, face |-> face, time |-> time]
          /\ out = [pc |-> "start", n |-> 0, tracker |-> held, frames |-> <<>>,
                    mode |-> "none"]
          /\ realLandmarks = HeldLength(Len(held.realLandmarks))
          /\ faceBoundingBox = (held.faceBoundingBox # <<>>)
    /\ buttons = "none"
    /\ rejected = FALSE
    /\ unloaded = FALSE
    /\ lastOp = "constructor"
    /\ teardown = FALSE

\* what a step on the tracker of this section leaves in the variables of the tracker
TrackerHolds(tracker) ==
    /\ realLandmarks' = HeldLength(Len(tracker.realLandmarks))
    /\ faceBoundingBox' = (tracker.faceBoundingBox # <<>>)
    /\ UNCHANGED <<controllerVars, currentSmileScoreData, args, isTracking, animationFrameId,
                   facialOverlay, rafQueue, inflight>>

\* the record arrives in a frame: updateFaceBoundingBox(face) comes first
UpdateBoxForRecord ==
    /\ variant = "normalizer" /\ out.pc \in {"start", "extracted"} /\ out.n < 2
    /\ out' = [out EXCEPT !.pc = "boxed", !.tracker = updateFaceBoundingBox(out.tracker)]
    /\ lastOp' = "updateFaceBoundingBox"
    /\ TrackerHolds(out'.tracker)

\* then extractLandmarks(face); frames keeps the newLandmarks of each call
ExtractLandmarks ==
    /\ variant = "normalizer" /\ out.pc = "boxed"
    /\ out' = [out EXCEPT !.pc = "extracted", !.n = @ + 1,
                          !.tracker = extractLandmarksOfRecord(out.tracker, args.face, args.video),
                          !.frames = Append(@, NewLandmarks(args.face, args.video))]
    /\ lastOp' = "extractLandmarks"
    /\ TrackerHolds(out'.tracker)

\* the whole per-frame update on a frame in which the detector returns the record
TrackRecord ==
    /\ variant = "normalizer" /\ out.pc = "start"
    /\ LET u == updateFacialAnalysisOverlay(out.tracker,
                    [detection |-> "record", face |-> args.face, time |-> args.time],
                    args.video)
       IN  /\ out' = [out EXCEPT !.pc = "tracked", !.n = 1, !.tracker = u.tracker,
                                 !.mode = u.mode]
           /\ lastOp' = FrameEnds(FALSE, TRUE, u.mode = "detected", FALSE)
    /\ TrackerHolds(out'.tracker)

NextNormalizer == UpdateBoxForRecord \/ ExtractLandmarks \/ TrackRecord

SpecNormalizer == InitNormalizer /\ [][NextNormalizer]_vars

\* ------------------------------------------ the geometric metrics on their own
\* A JavaScript number: [kind |-> "num", v |-> hundredths], NaN, or an infinity with
\* its sign in v. Quotients are rounded down to hundredths.
Num(v) == [kind |-> "num", v |-> v]
NaN == [kind |-> "nan", v |-> 0]
Infinity(sign) == [kind |-> "inf", v |-> sign]

\* a / b for two finite numbers, b not negative
Divide(a, b) ==
    IF b.v = 0
    THEN IF a.v = 0 THEN NaN ELSE Infinity(IF a.v > 0 THEN 1 ELSE -1)
    ELSE Num((a.v * 100) \div b.v)
\* x * k for a positive constant k
Scaled(x, k) == IF x.kind = "num" THEN Num(x.v * k) ELSE x
\* Math.min(c, x) and Math.max(c, x) for a finite c given in units
MathMin(c, x) ==
    IF x.kind = "nan" THEN NaN
    ELSE IF x.kind = "inf" THEN (IF x.v > 0 THEN Num(c * 100) ELSE x)
    ELSE Num(Min(c * 100, x.v))
MathMax(c, x) ==
    IF x.kind = "nan" THEN NaN
    ELSE IF x.kind = "inf" THEN (IF x.v > 0 THEN x ELSE Num(c * 100))
    ELSE Num(Max(c * 100, x.v))

\* Math.sqrt by bisection, rounded down: the root of n between low and high
RECURSIVE RootBetween(_, _, _)
RootBetween(n, low, high) ==
    IF low = high THEN low
    ELSE LET mid == (low + high + 1) \div 2
         IN  IF mid * mid <= n THEN RootBetween(n, mid, high) ELSE RootBetween(n, low, mid - 1)
\* distance(point1, point2), points in whole pixels
distance(point1, point2) ==
    LET dx == point1[1] - point2[1]
        dy == point1[2] - point2[2]
        dz == point1[3] - point2[3]
        sum == (dx * dx + dy * dy + dz * dz) * 10000
    IN  Num(RootBetween(sum, 0, Min(sum, 40000)))

\* the indices calculateRealFacialMetrics() reads
leftEyeInner == 133
rightEyeInner == 362
leftMouth == 61
rightMouth == 291
topLip == 13
bottomLip == 14
leftEyeOuter == 33
rightEyeOuter == 263
noseTip == 1

\* calculateRealFacialMetrics() on a mesh of at least 468 points, of which landmarks
\* gives those at the indices read; facialTension is drawn apart
calculateRealFacialMetrics(landmarks) ==
    LET MathAbs(n) == IF n < 0 THEN 0 - n ELSE n
        HundredMinus(x) == IF x.kind = "num" THEN Num(10000 - x.v)
                           ELSE IF x.kind = "inf" THEN Infinity(0 - x.v) ELSE x
        mouthWidth == distance(landmarks[leftMouth], landmarks[rightMouth])
        mouthHeight == distance(landmarks[topLip], landmarks[bottomLip])
        mouthCurvature == Divide(mouthHeight, mouthWidth)
        leftEyeWidth == distance(landmarks[leftEyeInner], landmarks[leftEyeOuter])
        rightEyeWidth == distance(landmarks[rightEyeInner], landmarks[rightEyeOuter])
        eyeSymmetry ==
            HundredMinus(Scaled(Divide(Num(MathAbs(leftEyeWidth.v - rightEyeWidth.v)),
                                      Num(Max(leftEyeWidth.v, rightEyeWidth.v))), 100))
        leftMouthY == landmarks[leftMouth][2] * 100
        rightMouthY == landmarks[rightMouth][2] * 100
        noseY == landmarks[noseTip][2] * 100
        smileIntensity ==
            MathMax(0, Scaled(Divide(Num(noseY - (leftMouthY + rightMouthY) \div 2),
                                    Num(noseY)), 100))
    IN  [mouthCurvature |-> MathMin(100, Scaled(mouthCurvature, 50)),
         eyeSymmetry |-> MathMin(100, eyeSymmetry),
         smileIntensity |-> MathMin(100, smileIntensity),
         mouthWidth |-> MathMin(100, Scaled(mouthWidth, 10))]

\* the points of a mesh at the indices read, in whole pixels: the mouth corners w to
\* either side of x = 100 at height mouthY and depth d apart, the lips h apart, the eyes
\* l and r wide and e high (upper and lower lids at 159/145 and 386/374), the nose tip
\* at height noseY
FaceMeshes ==
    LET KeyIndices == {leftEyeInner, rightEyeInner, leftMouth, rightMouth, topLip,
                       bottomLip, leftEyeOuter, rightEyeOuter, noseTip,
                       159, 145, 386, 374}
        FaceMesh(w, d, h, l, r, e, noseY, mouthY) ==
            [i \in KeyIndices |->
                CASE i = leftMouth -> <<100 - w, mouthY, 0>>
                  [] i = rightMouth -> <<100 + w, mouthY, d>>
                  [] i = topLip -> <<100, mouthY, 0>>
                  [] i = bottomLip -> <<100, mouthY + h, 0>>
                  [] i = leftEyeInner -> <<80, 50, 0>>
                  [] i = leftEyeOuter -> <<80 - l, 50, 0>>
                  [] i = rightEyeInner -> <<120, 50, 0>>
                  [] i = rightEyeOuter -> <<120 + r, 50, 0>>
                  [] i = 159 -> <<70, 50, 0>>
                  [] i = 145 -> <<70, 50 + e, 0>>
                  [] i = 386 -> <<130, 50, 0>>
                  [] i = 374 -> <<130, 50 + e, 0>>
                  [] OTHER -> <<100, noseY, 0>>]
    IN  {FaceMesh(w, d, h, l, r, e, noseY, mouthY) :
            w \in {0, 1, 4, 20}, d \in {0, 6}, h \in {0, 2, 5}, l \in {0, 20, 30},
            r \in {0, 20, 30}, e \in {0, 8}, noseY \in {0, 100, 300}, mouthY \in {0, 200, 350}}

InitMetrics ==
    /\ variant = "metrics"
    /\ smileLevel = 1
    /\ captchaLevel = 0
    /\ humanityPercentage = HumanityOf(smileLevel)
    /\ currentSmileScoreData = <<>>
    /\ isAnalyzing = FALSE
    /\ analysisTimer = 0
    /\ isTracking = FALSE
    /\ animationFrameId = 0
    /\ facialOverlay = TRUE
    /\ isModelLoaded = TRUE
    /\ realLandmarks = 468
    /\ faceBoundingBox = TRUE
    /\ captchaTimerInterval = 0
    /\ timeRemaining = baseCaptchaTime
    /\ captchaOverlay = FALSE
    /\ failureOverlay = FALSE
    /\ verdictOverlay = FALSE
    /\ timeouts = NoTimeouts
    /\ intervals = NoIntervals
    /\ rafQueue = {}
    /\ inflight = 0
    /\ args \in [landmarks : FaceMeshes]
    /\ out = [pc |-> "input"]
    /\ buttons = "none"
    /\ rejected = FALSE
    /\ unloaded = FALSE
    /\ lastOp = "constructor"
    /\ teardown = FALSE

ApplyCalculateRealFacialMetrics ==
    /\ variant = "metrics" /\ out.pc = "input"
    /\ out' = [pc |-> "measured", subMetrics |-> calculateRealFacialMetrics(args.landmarks)]
    /\ lastOp' = "calculateRealFacialMetrics"
    /\ UNCHANGED <<controllerVars, trackerVars, args, currentSmileScoreData>>

\* this.metricSmoothingFactor, in tenths
metricSmoothingFactor == 3

\* drawMeasurementLabels() on a mesh of at least 468 points with a box held: the three
\* display metrics, their smoothing into smoothedMetrics, and the overall score with the
\* colour branch taken. noise gives the three microVariation() draws in hundredths.
\* lipSeparation is computed by the code and not used.
drawMeasurementLabels(smoothedMetrics, landmarks, noise) ==
    LET Defined(a, b) == a.kind # "nan" /\ b.kind # "nan"
        Sum(a, b) == IF Defined(a, b) THEN Num(a.v + b.v) ELSE NaN
        Difference(a, b) == IF Defined(a, b) THEN Num(a.v - b.v) ELSE NaN
        Part(a, n, d) == IF a.kind = "nan" THEN NaN ELSE Num((a.v * n) \div d)
        MathAbs(n) == IF n < 0 THEN 0 - n ELSE n
        Clamp(low, high, x) == MathMax(low, MathMin(high, x))
        Falsy(x) == x.kind = "nan" \/ x.v = 0
        nose == landmarks[1]
        avgMouthY == ((landmarks[61][2] + landmarks[291][2]) * 100) \div 2
        rawSmileIntensity ==
            Clamp(0, 100, Scaled(Divide(Num(nose[2] * 100 - avgMouthY), Num(nose[2] * 100)), 200))
        dx == landmarks[61][1] - landmarks[291][1]
        dy == landmarks[61][2] - landmarks[291][2]
        squares == (dx * dx + dy * dy) * 10000
        mouthWidth == Clamp(0, 100, Num(RootBetween(squares, 0, Min(squares, 40000)) \div 2))
        leftMouthElevation == nose[2] - landmarks[61][2]
        rightMouthElevation == nose[2] - landmarks[291][2]
        mouthSymmetry == Num(10000 - MathAbs(leftMouthElevation - rightMouthElevation) * 200)
        leftEyeWidth == distance(landmarks[133], landmarks[33])
        rightEyeWidth == distance(landmarks[362], landmarks[263])
        ratio == Scaled(Divide(Num(MathAbs(leftEyeWidth.v - rightEyeWidth.v)),
                               Num(Max(leftEyeWidth.v, rightEyeWidth.v))), 100)
        eyeSymmetry == Difference(Num(10000), ratio)
        rawFacialSymmetry == Part(Sum(mouthSymmetry, eyeSymmetry), 1, 2)
        leftEyeHeight == MathAbs(landmarks[159][2] - landmarks[145][2])
        rightEyeHeight == MathAbs(landmarks[386][2] - landmarks[374][2])
        eyeCrinkle == MathMax(0, Num(10000 - (leftEyeHeight + rightEyeHeight) * 500))
        rawJoyDetection == Part(Sum(eyeCrinkle, rawSmileIntensity), 1, 2)
        targetMuscleActivation ==
            Clamp(55, 79, Sum(Part(Sum(rawSmileIntensity, mouthWidth), 1, 2), Num(2500)))
        symmetryTarget == Clamp(60, 78, Sum(Part(rawFacialSymmetry, 7, 10), Num(1500)))
        expressionPenalty == Part(rawSmileIntensity, 5, 100)
        targetFacialSymmetry == MathMax(60, Difference(symmetryTarget, expressionPenalty))
        joyTarget == Clamp(50, 77, Sum(Part(rawJoyDetection, 7, 10), Num(1500)))
        joyMuscleCorrelation == Part(targetMuscleActivation, 15, 100)
        targetJoyDetection ==
            Clamp(50, 77, Difference(Sum(joyTarget, joyMuscleCorrelation), Num(1000)))
        Eased(held, target) ==
            Sum(held, Part(Difference(target, held), metricSmoothingFactor, 10))
        smoothed ==
            IF Falsy(smoothedMetrics.muscleActivation)
            THEN [muscleActivation |-> targetMuscleActivation,
                  facialSymmetry |-> targetFacialSymmetry,
                  joyDetection |-> targetJoyDetection]
            ELSE [muscleActivation |-> Eased(smoothedMetrics.muscleActivation,
                                                targetMuscleActivation),
                  facialSymmetry |-> Eased(smoothedMetrics.facialSymmetry,
                                              targetFacialSymmetry),
                  joyDetection |-> Eased(smoothedMetrics.joyDetection, targetJoyDetection)]
        muscleActivation == Clamp(55, 79, Sum(smoothed.muscleActivation, Num(noise[1])))
        facialSymmetry == Clamp(60, 78, Sum(smoothed.facialSymmetry, Num(noise[2])))
        joyDetection == Clamp(50, 77, Sum(smoothed.joyDetection, Num(noise[3])))
        rawOverallScore == Part(Sum(Sum(muscleActivation, facialSymmetry), joyDetection), 1, 3)
        overallScore == MathMin(79, rawOverallScore)
    IN  [smoothedMetrics |-> smoothed, overallScore |-> overallScore,
         colour |-> IF overallScore.kind = "num" /\ overallScore.v >= 8000 THEN "green"
                    ELSE IF overallScore.kind = "num" /\ overallScore.v >= 6000 THEN "orange"
                    ELSE "red"]

\* one frame of the overlay drawn on a mesh: the first on the mesh of the run with the
\* smoothedMetrics of the constructor, a second on the same mesh, on that mesh with nose
\* and eyes in regular places, or on that mesh with both eyes closed to a point
ApplyDrawMeasurementLabels ==
    /\ variant = "metrics" /\ out.pc \in {"input", "drawn"}
    /\ \E noise \in {<<0, 0, 0>>, <<75, 75, 75>>, <<-75, -75, -75>>, <<75, -75, 0>>} :
       \E landmarks \in
             IF out.pc = "input" THEN {args.landmarks}
             ELSE {args.landmarks,
                   [args.landmarks EXCEPT ![noseTip] = <<100, 300, 0>>,
                                          ![leftEyeOuter] = <<60, 50, 0>>],
                   [args.landmarks EXCEPT ![leftEyeOuter] = args.landmarks[leftEyeInner],
                                          ![rightEyeOuter] = args.landmarks[rightEyeInner]]} :
          LET held == IF out.pc = "input"
                      THEN [muscleActivation |-> Num(0), facialSymmetry |-> Num(0),
                            joyDetection |-> Num(0)]
                      ELSE out.smoothedMetrics
              drawn == drawMeasurementLabels(held, landmarks, noise)
          IN  /\ out.pc = "drawn" => out.n < 2
              /\ out' = [pc |-> "drawn", n |-> IF out.pc = "input" THEN 1 ELSE out.n + 1,
                         landmarks |-> landmarks, smoothedMetrics |-> drawn.smoothedMetrics,
                         overallScore |-> drawn.overallScore, colour |-> drawn.colour]
    /\ lastOp' = "drawMeasurementLabels"
    /\ UNCHANGED <<controllerVars, trackerVars, args, currentSmileScoreData>>

NextMetrics == ApplyCalculateRealFacialMetrics \/ ApplyDrawMeasurementLabels

SpecMetrics == InitMetrics /\ [][NextMetrics]_vars

\* ---------------------------------------------------- the persistent user
\* A user who makes the next claim only after the previous challenge finished: no
\* timer of the session is pending and no captcha is open.
ChallengeFinished ==
    /\ \A k \in TimeoutKinds : timeouts[k] = 0
    /\ DOMAIN intervals = {}
    /\ ~captchaOverlay

PatientClaim == ChallengeFinished /\ ProcessHumanClaim
PatientClaimReverse == ChallengeFinished /\ ProcessHumanClaimReverse

InitLive == Init /\ ~isModelLoaded

NextLive ==
    \/ PatientClaim
    \/ WelcomePhase2
    \/ WelcomePhase3
    \/ SmileTrigger
    \/ \E h \in DOMAIN intervals : AnalysisTick(h)
    \/ \E h \in rafQueue : AnimationFrame(h)
    \/ OfferButtons
    \/ ShowSmileTutorial
    \/ ShowFinalRejection
    \/ StartOverButtons
    \/ ShowFailurePage
    \/ PatientClaimReverse
    \/ TriggerReverseCAPTCHA
    \/ \E h \in DOMAIN intervals : CaptchaTick(h)
    \/ \E matches \in BOOLEAN : SubmitCaptcha(matches)
    \/ CaptchaSuccessCloses
    \/ CaptchaCloses

\* the host runs every timer, interval and frame callback that stays due, and the user
\* keeps claiming; pressing a button of the page is left to the user
HostRuns ==
    /\ WF_vars(WelcomePhase2)
    /\ WF_vars(WelcomePhase3)
    /\ WF_vars(SmileTrigger)
    /\ WF_vars(\E h \in DOMAIN intervals : AnalysisTick(h))
    /\ WF_vars(\E h \in rafQueue : AnimationFrame(h))
    /\ WF_vars(OfferButtons)
    /\ WF_vars(StartOverButtons)
    /\ WF_vars(ShowFailurePage)
    /\ WF_vars(TriggerReverseCAPTCHA)
    /\ WF_vars(\E h \in DOMAIN intervals : CaptchaTick(h))
    /\ WF_vars(CaptchaSuccessCloses)
    /\ WF_vars(CaptchaCloses)
UserKeepsClaiming == WF_vars(PatientClaim) /\ WF_vars(PatientClaimReverse)

\* sessions without reset of a user who keeps claiming, under a host that keeps running
SpecLive == InitLive /\ [][NextLive]_vars /\ HostRuns /\ UserKeepsClaiming

\* ------------------------------------------------------------ the input layer
\* The ways a claim reaches processHumanClaim in script.js: a recognised phrase, the
\* Skip button, and the key and click listeners of fallback input.  The layer's fields
\* are kept in `out`:
\*   recognition   "none" (no Web Speech API), "started", "failing" (an error event
\*                 was delivered, the end event is to come) or "ended"
\*   isListening, fallbackActive, retryCount   the fields of that name
\*   listeners     how many times enableFallbackControls added its two listeners
\*   restarts      pending timers that call recognition.start() (500 ms and retryDelay)
\*   fallbacks     pending 2 s timers that call fallbackToAlternativeMethods
\*   dispatch      listeners of the event being dispatched that have not run yet
\*   event, calls  history: the last trigger event and the processHumanClaim calls
\*                 it has made so far
maxRetries == 5
NoInput == [recognition |-> "none", isListening |-> FALSE, fallbackActive |-> FALSE,
            retryCount |-> 0, listeners |-> 0, restarts |-> 0, fallbacks |-> 0,
            dispatch |-> 0, event |-> "none", calls |-> 0]

enableFallbackControls(o) == [o EXCEPT !.listeners = @ + 1]

fallbackToAlternativeMethods(o) ==
    enableFallbackControls([o EXCEPT !.fallbackActive = TRUE, !.isListening = FALSE,
                                     !.retryCount = 0])

\* the errors of the switch that set shouldRestart, and those that do not
RestartableErrors == {"aborted", "no-speech", "restart-failed", "start-failed"}
FatalErrors == {"audio-capture", "not-allowed", "network", "service-not-allowed"}

handleSpeechError(o, error) ==
    IF error \in RestartableErrors /\ o.isListening
    THEN LET counted == [o EXCEPT !.retryCount = @ + 1]
         IN  IF counted.retryCount <= maxRetries
             THEN [counted EXCEPT !.restarts = @ + 1]
             ELSE fallbackToAlternativeMethods(counted)
    ELSE [o EXCEPT !.fallbacks = @ + 1]

\* what the browser offers: no Web Speech API, a recognition whose first start()
\* succeeds, or one whose first start() throws
SpeechSupport == {"none", "starts", "startThrows"}

setupAudioDetection(support) ==
    IF support = "none" THEN fallbackToAlternativeMethods(NoInput)
    ELSE IF support = "starts"
    THEN [NoInput EXCEPT !.recognition = "started", !.isListening = TRUE]
    ELSE handleSpeechError([NoInput EXCEPT !.recognition = "ended"], "start-failed")

\* the timer callbacks of onend and of handleSpeechError: start() throws on a
\* recognition that has not ended
restartRecognition(o) ==
    IF ~o.isListening THEN o
    ELSE IF o.recognition = "ended" THEN [o EXCEPT !.recognition = "started"]
    ELSE handleSpeechError(o, "restart-failed")

\* the environment raises an error only while fewer restarts than this are pending,
\* and only while the listeners installed and to come stay below MaxListeners
MaxRestarts == 2
MaxListeners == 2
ListenersToCome(o) == o.listeners + o.fallbacks + (IF o.isListening THEN 1 ELSE 0)

\* script.js after init() on a page without detector
InitInput ==
    /\ variant = "gate"
    /\ smileLevel = 0
    /\ captchaLevel = 0
    /\ humanityPercentage = 100
    /\ currentSmileScoreData = <<>>
    /\ isAnalyzing = FALSE
    /\ analysisTimer = 0
    /\ isTracking = FALSE
    /\ animationFrameId = 0
    /\ facialOverlay = TRUE
    /\ isModelLoaded = FALSE
    /\ realLandmarks = 0
    /\ faceBoundingBox = FALSE
    /\ captchaTimerInterval = 0
    /\ timeRemaining = baseCaptchaTime
    /\ captchaOverlay = FALSE
    /\ failureOverlay = FALSE
    /\ verdictOverlay = FALSE
    /\ timeouts = NoTimeouts
    /\ intervals = NoIntervals
    /\ rafQueue = {}
    /\ inflight = 0
    /\ args = NoArgs
    /\ out \in {setupAudioDetection(support) : support \in SpeechSupport}
    /\ buttons = "none"
    /\ rejected = FALSE
    /\ unloaded = FALSE
    /\ lastOp = "constructor"
    /\ teardown = FALSE

\* a step of the input layer that calls nothing of the gate
InputOnly(op) ==
    /\ lastOp' = op
    /\ UNCHANGED <<variant, gateVars, humanityPercentage, isModelLoaded, failureOverlay,
                   unloaded, teardown, timeouts, intervals, args>>
    /\ UNCHANGED <<trackerVars, reverseVars, offerVars>>

\* recognition.onresult with a phrase detectHumanPhrase accepts
SpeechHeard ==
    /\ out.dispatch = 0
    /\ ChallengeFinished
    /\ out.recognition = "started"
    /\ Claimed
    /\ out' = [out EXCEPT !.event = "speech", !.calls = 1]
    /\ UNCHANGED args

\* recognition.onerror
SpeechError(error) ==
    /\ out.dispatch = 0
    /\ out.recognition = "started"
    /\ out.restarts < MaxRestarts
    /\ ListenersToCome(out) < MaxListeners
    /\ out' = handleSpeechError([out EXCEPT !.recognition = "failing"], error)
    /\ InputOnly("speechError")

\* recognition.onend, after an error or when the service stops by itself
RecognitionEnds ==
    /\ out.dispatch = 0
    /\ out.recognition \in {"started", "failing"}
    /\ out' = [out EXCEPT !.recognition = "ended",
                          !.restarts = IF out.isListening THEN @ + 1 ELSE @]
    /\ InputOnly("callback")

RestartRecognition ==
    /\ out.dispatch = 0
    /\ out.restarts > 0
    /\ out' = restartRecognition([out EXCEPT !.restarts = @ - 1])
    /\ InputOnly("callback")

FallbackAfterError ==
    /\ out.dispatch = 0
    /\ out.fallbacks > 0
    /\ out' = fallbackToAlternativeMethods([out EXCEPT !.fallbacks = @ - 1])
    /\ InputOnly("callback")

\* a click on the video or a press of Space or H: the host calls every listener
\* registered for the event, one after the other
TriggerEvents == {"click", "keydown"}
FallbackTrigger(event) ==
    /\ IsGate
    /\ out.dispatch = 0
    /\ ChallengeFinished
    /\ out' = [out EXCEPT !.dispatch = out.listeners, !.event = event, !.calls = 0]
    /\ InputOnly(event)

ListenerRuns ==
    /\ out.dispatch > 0
    /\ Claimed
    /\ out' = [out EXCEPT !.dispatch = @ - 1, !.calls = @ + 1]
    /\ UNCHANGED args

\* the Skip button addTestButton installs
SkipButton ==
    /\ out.dispatch = 0
    /\ ChallengeFinished
    /\ Claimed
    /\ out' = [out EXCEPT !.event = "skip", !.calls = 1]
    /\ UNCHANGED args

\* the host runs one callback to its end before the next: nothing else runs while
\* the listeners of an event are being called
BetweenEvents(callback) == out.dispatch = 0 /\ callback

NextInput ==
    \/ ListenerRuns
    \/ SpeechHeard
    \/ \E error \in {"no-speech", "network"} : SpeechError(error)
    \/ RecognitionEnds
    \/ RestartRecognition
    \/ FallbackAfterError
    \/ \E event \in TriggerEvents : FallbackTrigger(event)
    \/ SkipButton
    \/ BetweenEvents(WelcomePhase2)
    \/ BetweenEvents(WelcomePhase3)
    \/ BetweenEvents(SmileTrigger)
    \/ \E h \in DOMAIN intervals : BetweenEvents(AnalysisTick(h))
    \/ \E h \in rafQueue : BetweenEvents(AnimationFrame(h))
    \/ BetweenEvents(OfferButtons)

SpecInput == InitInput /\ [][NextInput]_vars

InGate == variant \in {"gate", "gate0"}
\* the level-dependent bands as the specification lists them (hundredths)
BandFloor(level) == CASE level = 1 -> 5500 [] level = 2 -> 4000 [] level = 3 -> 2500
BandCeiling(level) == CASE level = 1 -> 7500 [] level = 2 -> 6500 [] level = 3 -> 4500
Scored == variant = "score" /\ out.pc # "input" /\ currentSmileScoreData # <<>>
Capped == variant = "score" /\ out.pc \in {"capped", "recapped"}

\* C1: whatever the level (1..3 or any other), the sub-metrics, the branch and the
\* noise, the score generateSmileScore stores lies in [5,79], below the threshold 80
C1_NoPass ==
    currentSmileScoreData # <<>> =>
        /\ currentSmileScoreData[1].score >= 50
        /\ currentSmileScoreData[1].score <= 790
        /\ currentSmileScoreData[1].score < 800

\* an unbanded level with every sub-metric at its best: only the final cap holds it at 79
C1_Witness ==
    /\ Scored
    /\ args.level = 4
    /\ args.metrics.mouthCurvature = 100 /\ args.metrics.eyeSymmetry = 100
    /\ args.metrics.smileIntensity = 100 /\ args.metrics.mouthWidth = 100
    /\ args.metrics.facialTension = 0
    /\ currentSmileScoreData[1].score = 790

\* C2: a claim that arrives while an earlier one is still being processed (its
\* timers pending or its analysis countdown running) changes no level and schedules
\* nothing
ClaimInProgress ==
    \/ timeouts["phase2"] + timeouts["phase3"] + timeouts["trigger"] + timeouts["captcha"] > 0
    \/ isAnalyzing /\ analysisTimer \in DOMAIN intervals
    \/ captchaTimerInterval \in DOMAIN intervals
C2_ReentrantClaimIgnored ==
    [][(lastOp' = "processHumanClaim" /\ ClaimInProgress)
         => (smileLevel' = smileLevel /\ captchaLevel' = captchaLevel /\ timeouts' = timeouts)]_vars

\* C3: at or above the maximum level processHumanClaim changes nothing of the
\* program's state and schedules nothing
programVars == <<variant, smileLevel, captchaLevel, humanityPercentage, currentSmileScoreData,
                 isAnalyzing, analysisTimer, isTracking, animationFrameId, facialOverlay,
                 isModelLoaded, realLandmarks, faceBoundingBox, captchaTimerInterval,
                 timeRemaining, captchaOverlay, failureOverlay, verdictOverlay,
                 timeouts, intervals, rafQueue, inflight, buttons, unloaded>>
LevelExhausted ==
    \/ InGate /\ smileLevel >= maxSmileLevel
    \/ variant = "reverse" /\ captchaLevel >= maxCaptchaLevel
C3_ClaimAtMaxIsNoOp ==
    [][(lastOp' = "processHumanClaim" /\ LevelExhausted) => UNCHANGED programVars]_vars

\* a claim was the last thing to run at the maximum level and nothing is pending
C3_Witness ==
    /\ InGate /\ smileLevel = maxSmileLevel
    /\ lastOp = "processHumanClaim"
    /\ timeouts = NoTimeouts

\* C4: right after resetMirror the level is 0, the humanity percentage 100 and no
\* attempt of the previous session is stored
C4_ResetDiscards ==
    lastOp = "resetMirror" =>
        /\ smileLevel = 0 /\ captchaLevel = 0
        /\ humanityPercentage = 100
        /\ currentSmileScoreData = <<>>

\* C5: once a teardown has run, no host callback changes the level, the humanity
\* percentage, the stored attempt, the analysing/tracking flags or the tracker state
C5_NoCallbackAfterTeardown ==
    [][(teardown /\ lastOp' \in HostCallbacks)
         => UNCHANGED <<smileLevel, captchaLevel, humanityPercentage, currentSmileScoreData,
                        isAnalyzing, isTracking, realLandmarks, faceBoundingBox>>]_vars

\* C6: humanityPercentage is max(0, 100 - 25 * level) in the smile gate and
\* max(0, 100 - 20 * level) in the reverse challenge, in every state
C6_HumanityFollowsLevel ==
    /\ InGate => humanityPercentage = Max(0, 100 - smileLevel * 25)
    /\ variant = "reverse" => humanityPercentage = Max(0, 100 - captchaLevel * 20)

C6_Witness ==
    /\ variant = "gate" /\ smileLevel = 2 /\ humanityPercentage = 50
    /\ lastOp = "processHumanClaim"

\* C7: the level stays within 0 .. maxLevel (3 in the smile gate, 5 in the reverse challenge)
C7_LevelInRange ==
    /\ InGate => (smileLevel >= 0 /\ smileLevel <= maxSmileLevel)
    /\ variant = "reverse" => (captchaLevel >= 0 /\ captchaLevel <= maxCaptchaLevel)

\* C8: a step that raises the level and leaves humanityPercentage at 0 schedules the
\* failure page only: no challenge is scheduled and no analysis is started by it
LevelRises == smileLevel' > smileLevel \/ captchaLevel' > captchaLevel
C8_ExhaustionSchedulesOnlyFailure ==
    [][(LevelRises /\ humanityPercentage' <= 0)
         => /\ timeouts'["failure"] = timeouts["failure"] + 1
            /\ timeouts'["captcha"] <= timeouts["captcha"]
            /\ timeouts'["trigger"] <= timeouts["trigger"]
            /\ DOMAIN intervals' \subseteq DOMAIN intervals]_vars

\* C9: at levels 1..3 the stored score is the weighted base, held inside the level's
\* band, plus the noise, held inside [5,79]; the sub-metrics {60,70,50,80,40} give
\* base 61 and a score in [58,64] at level 1, base 45 and a score in [42,48] at level 3
ClaimedWeighted(m) ==
    30 * m.mouthCurvature + 20 * m.eyeSymmetry + 30 * m.smileIntensity
  + 10 * m.mouthWidth + 10 * (100 - m.facialTension)
ClaimedScore(level, m, n) ==
    Max(500, Min(7900, Max(BandFloor(level), Min(BandCeiling(level), ClaimedWeighted(m))) + n))
C9_ScoreFormula ==
    (Scored /\ args.level \in 1 .. 3) =>
        LET stored == 10 * currentSmileScoreData[1].score
            claimed == ClaimedScore(args.level, args.metrics, args.variance)
            scenario == args.metrics = ScenarioMetrics
        IN  /\ stored - claimed <= 5 /\ claimed - stored < 5
            /\ args.variance >= -300 /\ args.variance <= 300
            /\ (scenario /\ args.level = 1) => (stored >= 5800 /\ stored <= 6400)
            /\ (scenario /\ args.level = 3) => (stored >= 4200 /\ stored <= 4800)
            /\ (scenario /\ args.level = 1 /\ Capped) => out.base = 6100
            /\ (scenario /\ args.level = 3 /\ Capped) => out.base = 4500

C9_Witness ==
    /\ Capped /\ currentSmileScoreData # <<>>
    /\ args.metrics = ScenarioMetrics /\ args.level = 3 /\ args.variance = 299
    /\ out.base = 4500
    /\ currentSmileScoreData[1].score = 480

\* C10: at a level 1..3 two weighted bases at or above the band ceiling are both
\* capped to the ceiling, and capping a capped base again leaves it as it is
C10_CapSaturatesAndIsIdempotent ==
    (Capped /\ args.level \in 1 .. 3) =>
        /\ (ClaimedWeighted(args.metrics) >= BandCeiling(args.level)
              /\ ClaimedWeighted(args.other) >= BandCeiling(args.level))
             => (out.base = BandCeiling(args.level) /\ out.otherBase = out.base)
        /\ out.pc = "recapped" => out.again = out.base

C10_Witness ==
    /\ variant = "score" /\ out.pc = "recapped" /\ args.level = 2
    /\ ClaimedWeighted(args.metrics) > BandCeiling(2)
    /\ ClaimedWeighted(args.other) > ClaimedWeighted(args.metrics)
    /\ out.base = 6500 /\ out.otherBase = 6500 /\ out.again = 6500

\* C11: the attempt an analysis ends with is the one the scoring engine makes of the
\* tracker state at expiry: with the detector loaded and a full mesh held at the
\* expiry tick its sub-metrics are the geometric ones, else the simulated ones
AnalysisExpires ==
    /\ InGate /\ lastOp' \in HostCallbacks
    /\ \E h \in DOMAIN intervals :
          /\ intervals[h] < ProgressDone
          /\ h \notin DOMAIN intervals' \/ intervals'[h] >= ProgressDone
C11_AttemptComputedAtExpiry ==
    [][AnalysisExpires =>
         /\ currentSmileScoreData' # <<>>
         /\ currentSmileScoreData'[1].subMetrics \in MetricsFrom(isModelLoaded, realLandmarks)]_vars

\* C12: an analysis that ends below the maximum level leaves a state in which the next
\* claim is accepted (the level rises by 1 and a new analysis is scheduled); one that
\* ends at the maximum level brings the two options (at once, or by a callback then
\* pending), and whenever the two options can be chosen every claim is ignored
OfferAvailable == InGate /\ buttons = "offer" /\ OptionsVisible
BetweenAnalyses ==
    /\ InGate /\ currentSmileScoreData # <<>>
    /\ DOMAIN intervals = {} /\ Starts = 0
    /\ smileLevel \in 1 .. (maxSmileLevel - 1)
C12_ExpiryLeadsToRetryOrOffer ==
    [][/\ (AnalysisExpires /\ smileLevel' = maxSmileLevel)
             => (OfferAvailable' \/ timeouts'["offer"] > 0)
       /\ OfferAvailable' => AtMaximum(smileLevel', maxSmileLevel)
       /\ (lastOp' = "processHumanClaim" /\ BetweenAnalyses)
             => /\ smileLevel' = smileLevel + 1
                /\ timeouts'["trigger"] = timeouts["trigger"] + 1]_vars

\* C13: choosing the tutorial or the final rejection changes neither the level nor the
\* humanity percentage nor the stored score; once final rejection was chosen, and until
\* a reset, every claim is ignored and no operation of the user other than the reset
\* changes the level, the humanity percentage or the stored score
sessionScore == <<smileLevel, humanityPercentage, currentSmileScoreData>>
C13_ChoicesKeepScoreRejectionIsTerminal ==
    [][/\ lastOp' \in {"showSmileTutorial", "showFinalRejection"} => UNCHANGED sessionScore
       /\ (rejected /\ lastOp' = "processHumanClaim") => UNCHANGED programVars
       /\ (rejected /\ lastOp' \notin {"resetMirror", "cleanup"} \cup HostCallbacks)
             => UNCHANGED sessionScore]_vars

\* C14: a tracked frame whose detector is missing, throws or returns no face ends on
\* the fallback branch without an exception, holding the synthetic box and 6 landmarks;
\* once a frame has used the fallback, a frame whose detection succeeds takes the
\* detected branch and holds the 468-point mesh
FailedDetectionFrame ==
    \/ isAnalyzing /\ ~isModelLoaded /\ \E h \in rafQueue : AnimationFrame(h)
    \/ DetectionSettles("none")
    \/ DetectionSettles("throw")
TrackerRun == variant = "tracker"
FrameOf(n) == Normalized(args.frames[n].keypoints, args.video)
TwoDetectorFrames ==
    /\ TrackerRun /\ out.n = 2
    /\ args.frames[1].detection = "face" /\ args.frames[2].detection = "face"
FilterStep ==
    (TrackerRun /\ out'.n = out.n + 1 /\ out'.modes[out'.n] = "detected")
        => \A i \in 1 .. Len(out.tracker.smoothedLandmarks), c \in 1 .. 3 :
              i <= MeshPoints =>
                 out'.tracker.smoothedLandmarks[i][c]
                    = out.tracker.smoothedLandmarks[i][c]
                        + ((FrameOf(out'.n)[i][c] - out.tracker.smoothedLandmarks[i][c]) * 7) \div 10
C16_SmoothingFormula ==
    /\ [](TwoDetectorFrames =>
             /\ Len(out.tracker.smoothedLandmarks) = MeshPoints
             /\ \A i \in 1 .. MeshPoints, c \in 1 .. 3 :
                   out.tracker.smoothedLandmarks[i][c]
                      = FrameOf(1)[i][c] + ((FrameOf(2)[i][c] - FrameOf(1)[i][c]) * 7) \div 10)
    /\ [][FilterStep]_vars

\* C17: what a fallback frame leaves, box and 6 landmarks, is what a fallback frame at
\* the same timestamp and video size leaves of an empty tracker, whatever box and
\* landmarks the tracker held before and whatever the level is
FallbackOfEmptyTracker(time, video) ==
    updateFacialAnalysisOverlay(EmptyTracker,
        [detection |-> "none", keypoints |-> <<>>, time |-> time], video).tracker
C17_FallbackDependsOnTimeAndSizeOnly ==
    (TrackerRun /\ out.n > 0 /\ out.modes[out.n] = "fallback")
        => LET golden == FallbackOfEmptyTracker(args.frames[out.n].time, args.video)
           IN  /\ out.tracker.faceBoundingBox = golden.faceBoundingBox
               /\ out.tracker.realLandmarks = golden.realLandmarks
               /\ Len(out.tracker.realLandmarks) = 6
C17_Witness ==
    /\ TrackerRun /\ out.n = 3 /\ smileLevel = maxSmileLevel
    /\ out.modes = <<"fallback", "detected", "fallback">>
    /\ args.frames[1].time = args.frames[3].time
    /\ args.frames[1].detection = "face" /\ args.frames[3].detection = "none"

\* C18: in every state of a live smile-gate session, before the first claim, between
\* analyses and while the options are offered, the frame loop is on: tracking is set and
\* a frame is requested or being processed
FrameLoopRuns == isTracking /\ (rafQueue # {} \/ inflight > 0)
C18_TrackingInEveryPhase == IsGate => FrameLoopRuns

\* C19: a click on the video submits a humanity claim in every state in which claims
\* are accepted, whether or not speech recognition is working: the click calls
\* processHumanClaim at least once whenever the level is below the maximum.
ClaimsAccepted == IsGate /\ smileLevel < maxSmileLevel
ClickOnMirror == ClaimsAccepted /\ lastOp' = "click" /\ out'.event = "click"
C19_ClickSubmitsClaim == [][ClickOnMirror => out'.dispatch > 0]_vars

\* C20: a user who keeps asserting their humanity, each challenge allowed to finish
\* and no reset made, eventually reaches the final state in which the verdict is shown
\* and the claim is rejected; no such run stays forever in a non-terminal state.  The
\* failure page and the final rejection message are counted as terminal as well.
VerdictReached == verdictOverlay \/ failureOverlay \/ rejected
C20_ClaimsLeadToVerdict == <>VerdictReached

\* C21: after every tracked frame in which a box is defined, the bounding box is the
\* extent of the landmarks stored after that same frame: its centre is the middle of
\* their least and greatest x and y, its width and height their spreads.
ExtentOf(landmarks) ==
    LET xs == Coordinates(landmarks, 1)
        ys == Coordinates(landmarks, 2)
    IN  [x |-> (MinOf(xs) + MaxOf(xs)) \div 2, y |-> (MinOf(ys) + MaxOf(ys)) \div 2,
         width |-> MaxOf(xs) - MinOf(xs), height |-> MaxOf(ys) - MinOf(ys)]
BoxDefined == TrackerRun /\ out.n > 0 /\ out.tracker.faceBoundingBox # <<>>
C21_BoxIsExtentOfLandmarks ==
    BoxDefined => out.tracker.faceBoundingBox[1] = ExtentOf(out.tracker.smoothedLandmarks)

\* C22: whenever the bounding box is defined, faceCenter is the centre of the box, after
\* detected frames and after fallback frames alike.
C22_FaceCenterMirrorsBox ==
    BoxDefined => out.tracker.faceCenter = <<out.tracker.faceBoundingBox[1].x,
                                              out.tracker.faceBoundingBox[1].y>>

\* C23: when the first successful detection arrives while the tracker holds no
\* landmarks, the smoothed landmarks at the end of that frame's update are the
\* normalized raw frame, neither smoothed nor replaced by synthetic points.
FirstDetection ==
    /\ TrackerRun /\ out.n < FramesPerRun
    /\ Len(out.tracker.smoothedLandmarks) = 0 /\ Len(out.tracker.realLandmarks) = 0
    /\ args.frames[out.n + 1].detection = "face"
    /\ out'.n = out.n + 1
C23_FirstDetectionKeptRaw ==
    [][FirstDetection => out'.tracker.smoothedLandmarks = FrameOf(out'.n)]_vars

\* C24: across frames the point stored at index i describes one facial feature:
\* smoothing combines raw point i only with a previous point i of a frame of the same
\* kind, so the six fallback points are never blended into a mesh frame. A detected
\* frame that follows a frame of another length is stored as it came.
KindChanges ==
    /\ TrackerRun /\ out'.n = out.n + 1
    /\ out'.modes[out'.n] = "detected"
    /\ Len(out.tracker.smoothedLandmarks) # Len(FrameOf(out'.n))
C24_IndexKeepsItsFeature ==
    [][KindChanges => out'.tracker.smoothedLandmarks = FrameOf(out'.n)]_vars

\* C25: the normalizer turns a keypoint (x, y) into (x * frameWidth, y * frameHeight)
\* exactly when both x and y lie in [0, 1] and passes it through otherwise, for
\* object-style and positional points alike, with a missing z set to 0 and the order of
\* the points kept; a tracker that held no landmarks stores that frame as it is.
NormalizerRun == variant = "normalizer"
ClaimedPoint(keypoint, video) ==
    LET x == keypoint.coords[1]
        y == keypoint.coords[2]
        z == IF Len(keypoint.coords) = 3 THEN keypoint.coords[3] ELSE 0
    IN  IF x >= 0 /\ x <= 100 /\ y >= 0 /\ y <= 100
        THEN <<x * video[1], y * video[2], z>>
        ELSE <<x, y, z>>
ClaimedFrame(field, video) == [i \in 1 .. Len(field) |-> ClaimedPoint(field[i], video)]
KeypointsExtracted ==
    NormalizerRun /\ out.pc = "extracted" /\ Len(KeypointField(args.face)) > 0
C25_NormalizerConvertsByRange ==
    KeypointsExtracted =>
        /\ \A k \in 1 .. Len(out.frames) :
              out.frames[k] = ClaimedFrame(KeypointField(args.face), args.video)
        /\ (out.n = 1 /\ out.tracker.faceBoundingBox = <<>>) =>
              out.tracker.realLandmarks = ClaimedFrame(KeypointField(args.face), args.video)
C25_Witness ==
    /\ KeypointsExtracted /\ out.n = 1 /\ out.tracker.faceBoundingBox = <<>>
    /\ args.face.keypoints = RawKeypoints("mixed", "mixed", 0)
    /\ out.tracker.realLandmarks = out.frames[1]
    /\ \E i, j, k \in 1 .. MeshPoints :
          /\ out.frames[1][i][1] = args.face.keypoints[i].coords[1] * args.video[1]
          /\ args.face.keypoints[i].coords[1] > 0
          /\ args.face.keypoints[j].coords[1] = 100
          /\ out.frames[1][j][1] = 100
          /\ Len(args.face.keypoints[k].coords) = 2 /\ out.frames[1][k][3] = 0

\* C26: normalizing a face record changes no tracker or controller state, and
\* normalizing the same record twice with the same frame size yields the same frame.
ExtractStep == NormalizerRun /\ out.pc = "boxed" /\ out'.pc = "extracted"
SameFrameTwice ==
    (NormalizerRun /\ out.pc = "extracted" /\ out.n = 2) => out.frames[1] = out.frames[2]
C26_NormalizingIsPure ==
    /\ []SameFrameTwice
    /\ [][ExtractStep => /\ out'.tracker = out.tracker
                         /\ UNCHANGED <<controllerVars, realLandmarks, faceBoundingBox>>]_vars

\* C27: a detected face record with neither a usable keypoint field nor a bounding-box
\* summary yields no landmarks for its frame, and the frame is served by the fallback
\* landmarks; landmarks of an earlier frame are not kept and presented as its result.
BareRecordTracked ==
    NormalizerRun /\ args.face = NoFace /\ out.pc = "start" /\ out'.pc = "tracked"
C27_BareRecordServedByFallback ==
    [][BareRecordTracked =>
         /\ out'.mode = "fallback"
         /\ out'.tracker.realLandmarks =
               FallbackOfEmptyTracker(args.time, args.video).realLandmarks]_vars

\* C28: generateSmileScore derives the sub-metrics geometrically exactly when the
\* detector is loaded and the tracker holds at least 468 landmarks; with the detector
\* unavailable, no landmarks or the six fallback landmarks they are synthesized.
FullMeshHeld == isModelLoaded /\ realLandmarks >= 468
C28_GeometricOnlyOnFullMesh ==
    [][SmileTrigger =>
         /\ currentSmileScoreData' # <<>>
         /\ FullMeshHeld <=> currentSmileScoreData'[1].subMetrics \in GeometricMetrics
         /\ ~FullMeshHeld <=> currentSmileScoreData'[1].subMetrics \in SessionMetrics]_vars
C28_Witness ==
    /\ InGate /\ isAnalyzing /\ isModelLoaded /\ realLandmarks = 468
    /\ lastOp = "callback" /\ analysisTimer \in DOMAIN intervals
    /\ intervals[analysisTimer] = 0
    /\ currentSmileScoreData # <<>>
    /\ currentSmileScoreData[1].subMetrics \in GeometricMetrics

\* C29: for every 468-point frame with non-negative pixel coordinates, degenerate ones
\* included (mouth corners that coincide, both eye widths 0, nose y 0), the geometric
\* sub-metrics mouthCurvature, eyeSymmetry, smileIntensity and mouthWidth are each a
\* defined number in [0, 100].
Measured == variant = "metrics" /\ out.pc = "measured"
InPercentRange(x) == x.kind = "num" /\ x.v >= 0 /\ x.v <= 10000
C29_GeometricMetricsDefined ==
    Measured => /\ InPercentRange(out.subMetrics.mouthCurvature)
                /\ InPercentRange(out.subMetrics.eyeSymmetry)
                /\ InPercentRange(out.subMetrics.smileIntensity)
                /\ InPercentRange(out.subMetrics.mouthWidth)

\* C30: for identical sub-metrics the band-clamped base never rises with the level:
\* the clamp of level L + 1 is at most the clamp of level L for L in {1, 2} and every
\* base, and the floor and the ceiling of band L + 1 are strictly below those of band L.
WholePercents == {100 * p : p \in 0 .. 100}
C30_ClampFallsWithLevel ==
    (Capped /\ args.level \in {1, 2}) =>
        /\ calculateRealisticScore(args.metrics, args.level + 1) <= out.base
        /\ calculateSimulatedScore(args.other, args.level + 1) <= out.otherBase
        /\ \A base \in WholePercents :
              LevelCap(base, args.level + 1) <= LevelCap(base, args.level)
        /\ LevelCap(0, args.level + 1) < LevelCap(0, args.level)
        /\ LevelCap(10000, args.level + 1) < LevelCap(10000, args.level)

C30_Witness ==
    /\ Capped /\ args.level = 2
    /\ WeightedBase(args.metrics) < 2500 /\ out.base = 4000
    /\ calculateRealisticScore(args.metrics, 3) = 2500
    /\ WeightedBase(args.other) > 6500 /\ out.otherBase = 6500
    /\ calculateSimulatedScore(args.other, 3) = 4500

\* C31: the overall score drawn on the overlay is at most 79 in every frame, for every
\* landmark input and every history of the smoothed display metrics, so the branch that
\* colours the bar as passing is never taken.
Drawn == variant = "metrics" /\ out.pc = "drawn"
C31_LiveScoreAtMost79 ==
    Drawn => /\ out.overallScore.kind = "num" /\ out.overallScore.v <= 7900
             /\ out.colour # "green"

\* C32: every analysis phase lasts the same fixed number of 1-second countdown ticks,
\* four, whatever the level, the tracker state and the score; the results are shown on
\* the fourth tick.
ExpiryTickOf(h) ==
    /\ InGate /\ AnalysisTick(h)
    /\ intervals[h] < ProgressDone /\ intervals[h] + AnalysisStep >= ProgressDone
C32_AnalysisLastsFourTicks ==
    [][\A h \in DOMAIN intervals : ExpiryTickOf(h) => intervals[h] = 3 * AnalysisStep]_vars

\* C33: at most one analysis countdown interval is live at any time, and a countdown
\* stops firing after its expiry tick: its callback never runs again, so the results
\* are shown once per analysis cycle.
OneCountdown == InGate => Cardinality(DOMAIN intervals) <= 1
C33_OneCountdownThatStops ==
    /\ []OneCountdown
    /\ [][\A h \in DOMAIN intervals :
             (InGate /\ AnalysisTick(h)) => intervals[h] < ProgressDone]_vars

\* C34: at most one per-frame tracking loop is active at any time, under every
\* interleaving of startOverlayUpdates, stopOverlayUpdates and the completion of an
\* in-flight detection. A loop is a requested frame or an update suspended in its
\* detection: each ends by calling animate().
C34_OneTrackingLoop == InGate => Cardinality(rafQueue) + inflight <= 1

\* C35: every accepted claim is followed by a scored result for the level that claim
\* produced, computed with that level's band, so that no level the session passes
\* through is left without a result. The 1000 ms callbacks run in the order of their
\* claims: the one that runs belongs to the oldest claim still waiting, which raised
\* the level to smileLevel less the number of claims waiting behind it.
LevelOfOldestClaim == smileLevel - (timeouts["trigger"] - 1)
C35_ResultForTheLevelClaimed ==
    [][(SmileTrigger /\ LevelOfOldestClaim >= 1) =>
          \E m \in MetricsFrom(isModelLoaded, realLandmarks), v \in SessionVariance :
             currentSmileScoreData' =
                <<generateSmileScore(LevelOfOldestClaim, isModelLoaded /\ realLandmarks > 0,
                                     m, v)>>]_vars

\* C36: when the sub-metrics are synthesized the unclamped base lies in [47.5, 78), so
\* at level 3 the band-clamped base is always exactly 45 and the final score lies in
\* [42, 48], and at level 2 the band floor 40 is never the binding bound.
Synthesized == variant = "score" /\ out.pc = "synthesized"
C36_SynthesizedBaseAboveLowBands ==
    Synthesized =>
        LET base == WeightedBase(out.result.subMetrics)
        IN  /\ base >= 4750 /\ base < 7800
            /\ args.level = 3 => /\ out.base = 4500
                                 /\ out.result.score >= 420 /\ out.result.score <= 480
            /\ args.level = 2 => /\ out.base > 4000
                                 /\ out.base = Min(base, 6500)

C36_Witness ==
    /\ Synthesized /\ args.level = 3 /\ args.variance = -300
    /\ WeightedBase(out.result.subMetrics) = 4760
    /\ out.base = 4500 /\ out.result.score = 420

\* C37: in the reverse-challenge build each challenge is resolved exactly once, by
\* success, failure or timeout: no second outcome is taken for a challenge that has one,
\* its countdown stops firing, and a claim made while a challenge is open does not start
\* a second countdown on the same timeRemaining. Every outcome clears the countdown
\* captchaTimerInterval names and schedules the 2000 ms callback that closes the overlay.
OneChallengeCountdown == variant = "reverse" => Cardinality(DOMAIN intervals) <= 1
OutcomeTaken ==
    /\ variant = "reverse"
    /\ timeouts'["hide"] + timeouts'["success"] > timeouts["hide"] + timeouts["success"]
C37_ChallengeResolvedOnce ==
    /\ []OneChallengeCountdown
    /\ [][OutcomeTaken => captchaTimerInterval \in DOMAIN intervals]_vars

\* C38: speech-recognition restarts are bounded. After any handleSpeechError call
\* retryCount <= maxRetries; the restartable error that would exceed the bound while
\* listening switches to fallback input (fallbackActive, not listening, retryCount 0)
\* and schedules no restart; a non-restartable error schedules the fallback 2 s later,
\* and no restart of the recognition happens while that fallback is waiting.
RetriesBounded == out.retryCount <= maxRetries
ExceedingError ==
    /\ SpeechError("no-speech") /\ out.isListening /\ out.retryCount = maxRetries
RestartWhileFallbackWaits ==
    /\ out.fallbacks > 0 /\ out.recognition # "started" /\ out'.recognition = "started"
C38_RestartsBounded ==
    /\ []RetriesBounded
    /\ [][ExceedingError => /\ out'.fallbackActive /\ ~out'.isListening
                            /\ out'.retryCount = 0 /\ out'.restarts = out.restarts]_vars
    /\ [][SpeechError("network") => /\ out'.fallbacks = out.fallbacks + 1
                                    /\ out'.restarts = out.restarts]_vars
    /\ [][~RestartWhileFallbackWaits]_vars

\* C39: one trigger event (a recognised phrase, a press of Space or H, a click on the
\* video, a press of the skip button) causes exactly one processHumanClaim call, however
\* many times fallback input has been entered: the fallback listeners are installed at
\* most once.
EventHandled == out.dispatch = 0 /\ out.event \in TriggerEvents \cup {"speech", "skip"}
C39_OneClaimPerTrigger ==
    /\ out.listeners <= 1
    /\ EventHandled => out.calls = 1

====
